---------------------------- MODULE Spec2Model ----------------------------
(***************************************************************************)
(* A model of audio-notify-server: the /notify request handlers            *)
(* (server.py), the audio player selector (sound.py), the speech           *)
(* synthesizer (tts.py) and the process runner (process.py).               *)
(*                                                                         *)
(* The handlers are `async def` functions that never await: the event loop *)
(* runs one handler from its first line to its response before it takes    *)
(* the next request, so one request is in flight at a time.  The handler   *)
(* is cut into steps at the calls that block (play_sound, speak, the       *)
(* process runner's polling loop); the operating system (child processes,  *)
(* the file system, the PATH, the cloud provider) answers each call with   *)
(* any outcome it can produce.                                             *)
(***************************************************************************)
EXTENDS Integers, Sequences, FiniteSets, TLC

(***************************************************************************)
(* Bounds of the model.                                                    *)
(***************************************************************************)
\* Longest request message, in characters.
MaxMsgLen == 2
\* Largest max_message_length a config file sets (besides leaving it out).
MaxCfgLen == 1

(***************************************************************************)
(* Program constants.                                                      *)
(***************************************************************************)
DEFAULT_MAX_MESSAGE_LENGTH == 500

\* The characters messages are made of.
Chars == {"a"}

RECURSIVE SeqsUpTo(_)
SeqsUpTo(n) ==
    IF n = 0 THEN {<<>>}
    ELSE LET shorter == SeqsUpTo(n - 1)
         IN  shorter \cup {Append(s, c) : s \in {t \in shorter : Len(t) = n - 1}, c \in Chars}

Messages == SeqsUpTo(MaxMsgLen)

\* Python's Optional[T] as a sequence: <<>> is None, <<v>> is the value v.
None == <<>>
Some(v) == <<v>>

\* sound.py's player list and tts.py's engine list, in the order of the source.
TRUSTED_AUDIO_PLAYERS == {"paplay", "pw-play", "aplay", "ffplay", "mpv"}
players == <<"paplay", "pw-play", "aplay", "ffplay", "mpv">>

(***************************************************************************)
(* What a client sends: each field of the JSON body (POST) or of the query *)
(* string (GET) is given or left out.                                      *)
(***************************************************************************)
RawRequests ==
    [message : {None} \cup {Some(m) : m \in Messages},
     sound   : {None, Some(TRUE), Some(FALSE)},
     speak   : {None, Some(TRUE), Some(FALSE)}]

\* request.client: None (no peer address) or the peer's host.
Clients == {None, Some("10.0.0.7")}
\* The clients that have a peer address.
Peers == Clients \ {None}

\* The config file's max_message_length: left out, or a number.
CfgMaxLengths == {None} \cup {Some(n) : n \in 0..MaxCfgLen}

VARIABLES
    sound_file,   \* app.state.sound_file: None or Some("custom.wav")
    req,          \* the request in flight (or the last one): method, raw fields, client
    max_length,   \* get_max_message_length() as the handler read it
    hpc,          \* the handler's position
    actions,      \* the handler's local list `actions`
    resp,         \* the response sent for req (status 0: none yet)
    trace,        \* calls and returns of play_sound / speak made by the handler
    log,          \* records written to the logger for req
    ps,           \* play_sound's frame
    run,          \* _safe_run_audio_command / _safe_run_tts_command frame
    wp,           \* wait_for_process / kill_process frame
    child,        \* the child process of the current run, as the OS sees it
                  \* ("none": no such process, never spawned or already collected)
    unreaped,     \* children spawned for req and not yet waited for
    effects,      \* kinds of side effect performed since the handler's last call of
                  \* play_sound or speak (since the request came in, before any call)
    sp,           \* speak's frame (with _speak_elevenlabs, _play_audio_file, _speak_local)
    tmpfile,      \* the cloud tier's temporary audio file: "none", "exists", "removed"
    oracle,       \* test doubles: whether play_sound and speak are patched, and
                  \* what the patched functions return
    ref,          \* the last POST request and what the client saw of it
    conf,         \* the configuration sources (environment, user file, system file)
                  \* and what the config.py functions made of them
    lockfile,     \* notify-turn-hook.py: whether LOCKFILE exists
    hook          \* notify-turn-hook.py: the hook processes, each at its position

vars == <<sound_file, req, max_length, hpc, actions, resp, trace, log,
          ps, run, wp, child, unreaped, effects, sp, tmpfile, oracle, ref, conf,
          lockfile, hook>>


(***************************************************************************)
(* Frames at rest.                                                         *)
(***************************************************************************)
NoReq == [method |-> "none", message |-> <<>>, sound |-> FALSE, speak |-> FALSE,
          client |-> None]
NoRaw == [message |-> None, sound |-> None, speak |-> None]
NoResp == [status |-> 0, success |-> FALSE, actions |-> <<>>, detail |-> <<>>]
NoRef == [set |-> FALSE, raw |-> NoRaw, max |-> 0, resp |-> NoResp, trace |-> <<>>]
NoChild == [state |-> "none", how |-> "-", code |-> 0,
            exe |-> "-", full |-> FALSE, arg |-> None, stdin |-> "-"]
PsIdle == [pc |-> "idle", caller |-> "-", path |-> None, kind |-> "-", idx |-> 0,
           bells |-> 0, spawned |-> 0, failed |-> 0, ok |-> FALSE, played |-> FALSE,
           result |-> "-"]
RunIdle == [pc |-> "idle", fn |-> "-", exe |-> "-", full |-> FALSE, arg |-> None,
            input |-> None, written |-> 0, sent |-> <<>>, wfd |-> FALSE,
            result |-> "-", fate |-> "-"]
NoCfg == [enabled |-> FALSE, api_key |-> None]
SpIdle == [pc |-> "idle", message |-> <<>>, cfg |-> NoCfg, view |-> "-", idx |-> 0,
           cloud |-> "-", spoke |-> FALSE, result |-> "-"]
WpIdle == [pc |-> "idle", polls |-> 0, result |-> "-", code |-> 0,
           signals |-> <<>>, fate |-> "-"]

\* The process os.posix_spawn(full_path, safe_cmd, ...) starts: the executable's
\* name, whether safe_cmd[0] is the path shutil.which resolved it to, and the
\* request's message where it is one of the arguments, and what its stdin is: the
\* null device ("null") or the read end of a pipe ("pipe").
Spawned(exe, full, arg) ==
    [state |-> "running", how |-> "-", code |-> 0, exe |-> exe, full |-> full, arg |-> arg,
     stdin |-> "null"]

\* The exit statuses a child can end with.
ExitCodes == {0, 1}

\* How a child ended, as the operating system knows it until the child is waited
\* for: it exited with status 0, with another status, or a signal ended it.
Fate(c) == IF c.how # "exit" THEN "signal"
           ELSE IF c.code = 0 THEN "exit0" ELSE "nonzero"

(***************************************************************************)
(* The operating system: the child of the current run.                     *)
(***************************************************************************)
\* The child calls exit(code).
ChildExits ==
    /\ child.state = "running"
    /\ \E c \in ExitCodes :
         child' = [child EXCEPT !.state = "zombie", !.how = "exit", !.code = c]
    /\ UNCHANGED <<sound_file, req, max_length, hpc, actions, resp, trace, log,
                   ps, run, wp, unreaped, effects, sp, tmpfile, oracle, lockfile, hook, conf, ref>>

\* The child is ended by a signal the server did not send (a crash, an operator).
ChildKilled ==
    /\ child.state = "running"
    /\ child' = [child EXCEPT !.state = "zombie", !.how = "signal"]
    /\ UNCHANGED <<sound_file, req, max_length, hpc, actions, resp, trace, log,
                   ps, run, wp, unreaped, effects, sp, tmpfile, oracle, lockfile, hook, conf, ref>>

\* The dead child is collected by something other than wait_for_process: the case
\* wait_for_process's `except ChildProcessError` is written for.
ReapedElsewhere ==
    /\ child.state = "zombie"
    /\ wp.pc # "idle"
    /\ child' = NoChild
    /\ unreaped' = unreaped - 1
    /\ wp' = [wp EXCEPT !.fate = IF wp.pc = "poll" THEN Fate(child) ELSE @]
    /\ UNCHANGED <<sound_file, req, max_length, hpc, actions, resp, trace, log,
                   ps, run, effects, sp, tmpfile, oracle, lockfile, hook, conf, ref>>

(***************************************************************************)
(* process.py: wait_for_process and kill_process.                          *)
(***************************************************************************)
\* Polls of a still-running child after which the timeout has certainly elapsed.
MaxPolls == 1

WpReturn(code) == [WpIdle EXCEPT !.pc = "done", !.result = "return", !.code = code]
WpRaise(exc) == [WpIdle EXCEPT !.pc = "done", !.result = exc]

\* The frame wait_for_process ends with: what it returns or raises (out), with the
\* signals kill_process sent during the call and the fate of a child that was
\* waited for while the polling loop ran ("-" until then; kill_process looks at
\* no status, so none is kept for it).
WpEnd(frame, out, fate) == [out EXCEPT !.signals = frame.signals, !.fate = fate]

\* What wait_for_process does with a status waitpid handed it (lines 41-45).
WaitStatus(c) ==
    IF c.how = "exit" THEN WpReturn(c.code) ELSE WpRaise("CommandError")

\* What wait_for_process does when waitpid raises ChildProcessError (lines 38-40).
WaitNoChild == WpReturn(0)

\* A wait_for_process without the timeout check: it polls for as long as the child
\* runs.
WaitPollNoTimeout ==
    /\ wp.pc = "poll"
    /\ CASE child.state = "none" ->
              /\ wp' = WpEnd(wp, WaitNoChild, wp.fate)
              /\ UNCHANGED <<child, unreaped>>
         [] child.state = "zombie" ->
              /\ wp' = WpEnd(wp, WaitStatus(child), Fate(child))
              /\ child' = NoChild
              /\ unreaped' = unreaped - 1
         [] OTHER ->
              /\ wp' = [wp EXCEPT !.polls = IF wp.polls < MaxPolls THEN wp.polls + 1
                                            ELSE wp.polls]
              /\ UNCHANGED <<child, unreaped>>
    /\ UNCHANGED <<sound_file, req, max_length, hpc, actions, resp, trace, log,
                   ps, run, effects, sp, tmpfile, oracle, lockfile, hook, conf, ref>>

\* One iteration of wait_for_process's loop.
WaitPoll ==
    /\ wp.pc = "poll"
    /\ CASE child.state = "none" ->
              /\ wp' = WpEnd(wp, WaitNoChild, wp.fate)
              /\ UNCHANGED <<child, unreaped>>
         [] child.state = "zombie" ->
              /\ wp' = WpEnd(wp, WaitStatus(child), Fate(child))
              /\ child' = NoChild
              /\ unreaped' = unreaped - 1
         [] OTHER ->
              /\ \/ wp' = [wp EXCEPT !.pc = "term"]
                 \/ /\ wp.polls < MaxPolls
                    /\ wp' = [wp EXCEPT !.polls = wp.polls + 1]
              /\ UNCHANGED <<child, unreaped>>
    /\ UNCHANGED <<sound_file, req, max_length, hpc, actions, resp, trace, log,
                   ps, run, effects, sp, tmpfile, oracle, lockfile, hook, conf, ref>>

\* kill_process: os.kill(pid, SIGTERM).  The child may die of it or ignore it.
KillTerm ==
    /\ wp.pc = "term"
    /\ CASE child.state = "none" ->
              \* ProcessLookupError leaves the `with` block: no SIGKILL is sent.
              /\ wp' = [wp EXCEPT !.pc = "reap", !.signals = Append(@, "SIGTERM")]
              /\ child' = child
         [] child.state = "running" ->
              /\ wp' = [wp EXCEPT !.pc = "kill", !.signals = Append(@, "SIGTERM")]
              /\ \/ child' = [child EXCEPT !.state = "zombie", !.how = "signal"]
                 \/ child' = child
         [] OTHER ->
              /\ wp' = [wp EXCEPT !.pc = "kill", !.signals = Append(@, "SIGTERM")]
              /\ child' = child
    /\ effects' = effects \cup {"kill"}
    /\ UNCHANGED <<sound_file, req, max_length, hpc, actions, resp, trace, log,
                   ps, run, unreaped, sp, tmpfile, oracle, lockfile, hook, conf, ref>>

\* A kill_process that sends no SIGKILL.
KillKillOmitted ==
    /\ wp.pc = "kill"
    /\ wp' = [wp EXCEPT !.pc = "reap"]
    /\ child' = child
    /\ UNCHANGED <<sound_file, req, max_length, hpc, actions, resp, trace, log,
                   ps, run, unreaped, effects, sp, tmpfile, oracle, lockfile, hook, conf, ref>>

\* kill_process: time.sleep(0.1); os.kill(pid, SIGKILL).
KillKill ==
    /\ wp.pc = "kill"
    /\ wp' = [wp EXCEPT !.pc = "reap", !.signals = Append(@, "SIGKILL")]
    /\ child' = IF child.state = "running"
                THEN [child EXCEPT !.state = "zombie", !.how = "signal"]
                ELSE child
    /\ UNCHANGED <<sound_file, req, max_length, hpc, actions, resp, trace, log,
                   ps, run, unreaped, effects, sp, tmpfile, oracle, lockfile, hook, conf, ref>>

\* kill_process: os.waitpid(pid, 0), then wait_for_process raises CommandTimeoutError.
KillReap ==
    /\ wp.pc = "reap"
    /\ child.state \in {"zombie", "none"}
    /\ IF child.state = "zombie"
       THEN /\ child' = NoChild
            /\ unreaped' = unreaped - 1
       ELSE UNCHANGED <<child, unreaped>>
    /\ wp' = WpEnd(wp, WpRaise("CommandTimeoutError"), wp.fate)
    /\ UNCHANGED <<sound_file, req, max_length, hpc, actions, resp, trace, log,
                   ps, run, effects, sp, tmpfile, oracle, lockfile, hook, conf, ref>>

(***************************************************************************)
(* sound.py: _safe_run_audio_command.                                      *)
(***************************************************************************)
RunDone(r) == [RunIdle EXCEPT !.pc = "done", !.result = r]

\* Lines 48-58: the allowlist check and shutil.which.
SafeRunAudioValidate ==
    /\ run.pc = "validate"
    /\ run.fn = "audio"
    /\ IF run.exe \notin TRUSTED_AUDIO_PLAYERS
       THEN run' = RunDone("ValueError")
       ELSE \E found \in BOOLEAN :
              run' = IF found THEN [run EXCEPT !.pc = "spawn", !.full = TRUE]
                     ELSE RunDone("FileNotFoundError")
    /\ UNCHANGED <<sound_file, req, max_length, hpc, actions, resp, trace, log,
                   ps, wp, child, unreaped, effects, sp, tmpfile, oracle, lockfile, hook, conf, ref>>

\* Lines 64-81: os.open(devnull), os.posix_spawn, then the call of wait_for_process.
SafeRunAudioSpawn ==
    /\ run.pc = "spawn"
    /\ run.fn = "audio"
    /\ \E spawned \in BOOLEAN :
         IF spawned
         THEN /\ child' = Spawned(run.exe, run.full, run.arg)
              /\ unreaped' = unreaped + 1
              /\ effects' = effects \cup {"spawn"}
              /\ ps' = [ps EXCEPT !.spawned = ps.spawned + 1]
              /\ run' = [run EXCEPT !.pc = "wait"]
              /\ wp' = [WpIdle EXCEPT !.pc = "poll"]
         ELSE /\ run' = RunDone("OSError")
              /\ UNCHANGED <<child, unreaped, effects, ps, wp>>
    /\ UNCHANGED <<sound_file, req, max_length, hpc, actions, resp, trace, log, sp, tmpfile, oracle, lockfile, hook, conf, ref>>

\* Lines 81-85: the exit code decides between returning and CommandError.
RunResult(w) ==
    IF w.result = "return"
    THEN IF w.code # 0 THEN "CommandError" ELSE "return"
    ELSE w.result

SafeRunAudioFinish ==
    /\ run.pc = "wait"
    /\ run.fn = "audio"
    /\ wp.pc = "done"
    /\ run' = [RunDone(RunResult(wp)) EXCEPT !.fate = wp.fate]
    /\ wp' = WpIdle
    /\ UNCHANGED <<sound_file, req, max_length, hpc, actions, resp, trace, log,
                   ps, child, unreaped, effects, sp, tmpfile, oracle, lockfile, hook, conf, ref>>

(***************************************************************************)
(* sound.py: play_sound.                                                   *)
(***************************************************************************)
PsCall(caller, path) == [PsIdle EXCEPT !.pc = "start", !.caller = caller, !.path = path]
PsDone(frame, r) == [frame EXCEPT !.pc = "done", !.result = r]

\* A loop that lets a timeout through: the except clause without CommandTimeoutError.
PlaySoundCaughtNoTimeout ==
    {"CommandError", "FileNotFoundError", "ValueError", "OSError"}

\* The exceptions play_sound's loop catches (line 146).
PlaySoundCaught ==
    {"CommandError", "CommandTimeoutError", "FileNotFoundError", "ValueError", "OSError"}

\* The name of the temporary file the cloud tier hands to play_sound.
TempPath == Some("tmp.mp3")

\* Lines 114-121, no default sound to be found: the bell, and True.
PlaySoundNoDefault(frame) ==
    PsDone([frame EXCEPT !.bells = frame.bells + 1], "True")

\* A play_sound that counts the bell as success for a missing path too.
PlaySoundMissingAsSuccess(frame) ==
    PsDone([frame EXCEPT !.bells = frame.bells + 1], "True")

\* Lines 123-127, the path is not on disk: the bell, and False.
PlaySoundMissing(frame) ==
    PsDone([frame EXCEPT !.bells = frame.bells + 1], "False")

\* Lines 114-127: get_default_sound() answered `found`, Path.exists() `exists`.
PlaySoundEarly(frame, found, exists) ==
    IF frame.path = None /\ ~found THEN PlaySoundNoDefault(frame)
    ELSE IF ~exists THEN PlaySoundMissing(frame)
    ELSE [frame EXCEPT !.pc = "loop", !.idx = 1]

\* What the file system held when play_sound looked: no default sound, the path
\* missing, the path present.
FsView(path, found, exists) ==
    IF path = None /\ ~found THEN "nodefault"
    ELSE IF ~exists THEN "missing" ELSE "present"

PlaySoundResolve ==
    /\ ps.pc = "start"
    /\ \E found \in BOOLEAN,
          exists \in (IF ps.path = TempPath THEN {tmpfile = "exists"} ELSE BOOLEAN) :
         /\ ps' = [PlaySoundEarly(ps, found, exists) EXCEPT
                     !.kind = FsView(ps.path, found, exists)]
         /\ effects' = IF ps'.bells > ps.bells THEN effects \cup {"bell"} ELSE effects
    /\ UNCHANGED <<sound_file, req, max_length, hpc, actions, resp, trace, log,
                   run, wp, child, unreaped, sp, tmpfile, oracle, lockfile, hook, conf, ref>>

\* Lines 138-145: shutil.which(player), and the call of _safe_run_audio_command.
PlaySoundTry ==
    /\ ps.pc = "loop"
    /\ ps.idx <= Len(players)
    /\ \E avail \in BOOLEAN :
         IF avail
         THEN /\ ps' = [ps EXCEPT !.pc = "running"]
              /\ run' = [RunIdle EXCEPT !.pc = "validate", !.fn = "audio",
                                        !.exe = players[ps.idx]]
         ELSE /\ ps' = [ps EXCEPT !.idx = ps.idx + 1, !.failed = ps.failed + 1]
              /\ run' = run
    /\ UNCHANGED <<sound_file, req, max_length, hpc, actions, resp, trace, log,
                   wp, child, unreaped, effects, sp, tmpfile, oracle, lockfile, hook, conf, ref>>

\* A loop without the `else: return True`: it goes on after a player succeeded.
PlaySoundAfterRunGoesOn(frame, r) ==
    IF r = "return" \/ r \in PlaySoundCaught
    THEN [frame EXCEPT !.pc = "loop", !.idx = frame.idx + 1, !.ok = (r = "return")]
    ELSE PsDone(frame, r)

\* Lines 146-149: a caught exception goes to the next player, a return ends the loop.
PlaySoundAfterRun(frame, r) ==
    IF r = "return" THEN PsDone([frame EXCEPT !.ok = TRUE], "True")
    ELSE IF r \in PlaySoundCaught
    THEN [frame EXCEPT !.pc = "loop", !.idx = frame.idx + 1]
    ELSE PsDone(frame, r)

PlaySoundRan ==
    /\ ps.pc = "running"
    /\ run.pc = "done"
    /\ ps' = [PlaySoundAfterRun(ps, run.result) EXCEPT
                !.failed = IF run.result = "return" THEN ps.failed ELSE ps.failed + 1,
                !.played = run.result = "return" /\ run.fate = "exit0"]
    /\ run' = RunIdle
    /\ UNCHANGED <<sound_file, req, max_length, hpc, actions, resp, trace, log,
                   wp, child, unreaped, effects, sp, tmpfile, oracle, lockfile, hook, conf, ref>>

\* Lines 151-154: the last resort.
PlaySoundLastResort(frame) ==
    PsDone([frame EXCEPT !.bells = frame.bells + 1], "True")

PlaySoundBell ==
    /\ ps.pc = "loop"
    /\ ps.idx > Len(players)
    /\ ps' = PlaySoundLastResort(ps)
    /\ effects' = effects \cup {"bell"}
    /\ UNCHANGED <<sound_file, req, max_length, hpc, actions, resp, trace, log,
                   run, wp, child, unreaped, sp, tmpfile, oracle, lockfile, hook, conf, ref>>

(***************************************************************************)
(* config.py: get_max_message_length and get_elevenlabs_config, over what  *)
(* load_config returned and the environment holds.                         *)
(***************************************************************************)
\* config.get("max_message_length", DEFAULT_MAX_MESSAGE_LENGTH)
get_max_message_length(cfg_max) ==
    IF cfg_max = None THEN DEFAULT_MAX_MESSAGE_LENGTH ELSE cfg_max[1]

\* API keys: the empty string and a real one.
ApiKeys == {"", "k"}
OptKeys == {None} \cup {Some(k) : k \in ApiKeys}
OptBools == {None, Some(TRUE), Some(FALSE)}

\* Python's `a or b` on optional strings: a when it is truthy, else b.
PyOr(a, b) == IF a # None /\ a[1] # "" THEN a ELSE b

\* A resolution that does not look at the file's enabled flag.
get_elevenlabs_config_flagless(env_key, file_key, file_enabled) ==
    LET api_key == PyOr(env_key, file_key)
    IN  [enabled |-> api_key # None, api_key |-> api_key]

\* Lines 74-81 and 95-100: api_key and enabled.
get_elevenlabs_config(env_key, file_key, file_enabled) ==
    LET api_key == PyOr(env_key, file_key)
        flag == IF file_enabled = None THEN TRUE ELSE file_enabled[1]
    IN  [enabled |-> flag /\ api_key # None, api_key |-> api_key]

DEFAULT_ELEVENLABS_VOICE_ID == "Rachel"
DEFAULT_ELEVENLABS_MODEL_ID == "eleven_multilingual_v2"

\* Lines 84-93: `env or file or default`, for the voice and for the model.
voice_id(env_voice, file_voice) ==
    PyOr(PyOr(env_voice, file_voice), Some(DEFAULT_ELEVENLABS_VOICE_ID))[1]
model_id(env_model, file_model) ==
    PyOr(PyOr(env_model, file_model), Some(DEFAULT_ELEVENLABS_MODEL_ID))[1]

(***************************************************************************)
(* config.py: load_config over the two config files, and the two getters   *)
(* over what it returns.                                                   *)
(*                                                                         *)
(* A file is absent, unreadable (read_text raises OSError), undecodable    *)
(* (its bytes are not UTF-8: read_text raises UnicodeDecodeError),         *)
(* malformed (json.loads raises JSONDecodeError), valid JSON that is not   *)
(* an object ("notdict": a list, a number, null), or a JSON object.        *)
(***************************************************************************)
\* The "elevenlabs" object of a file; a key left out is None.  An object without
\* "elevenlabs" reads as the empty section: config.get("elevenlabs", {}).
NoSection == [api_key |-> None, enabled |-> None, voice_id |-> None, model_id |-> None]

NotAnObject(state) == [state |-> state, max |-> None, el |-> NoSection]
BrokenFiles == {NotAnObject(st) : st \in {"absent", "unreadable", "undecodable",
                                           "malformed", "notdict"}}

\* The user-level files of the model.
UserSections ==
    [api_key  : {None, Some(""), Some("user-key")},
     enabled  : OptBools,
     voice_id : {None, Some("user-voice")},
     model_id : {None, Some("user-model")}]
USER_CONFIG_PATH ==
    BrokenFiles \cup [state : {"dict"}, max : CfgMaxLengths, el : UserSections]

\* The system-level files of the model.
SystemSections ==
    [api_key  : {None, Some("system-key")},
     enabled  : {None},
     voice_id : {None, Some("system-voice")},
     model_id : {None, Some("system-model")}]
SYSTEM_CONFIG_PATH ==
    BrokenFiles \cup [state : {"dict"}, max : {None, Some(MaxCfgLen)}, el : SystemSections]

\* os.environ: ELEVENLABS_API_KEY, ELEVENLABS_VOICE_ID, ELEVENLABS_MODEL_ID.
Environments ==
    [api_key  : {None, Some(""), Some("env-key")},
     voice_id : {None, Some("env-voice")},
     model_id : {None, Some("env-model")}]

\* One round of load_config's loop (lines 45-51): the file is passed over ("next":
\* it does not exist, or its exception was logged), json.loads returned, or an
\* exception neither except clause names leaves load_config.
ReadConfigFile(file) ==
    CASE file.state = "absent"      -> "next"
      [] file.state = "unreadable"  -> "next"
      [] file.state = "malformed"   -> "next"
      [] file.state = "undecodable" -> "UnicodeDecodeError"
      [] OTHER                      -> "return"

\* What load_config hands back: the parsed JSON of a file, or the empty dict.
Loaded(file) == [result |-> "return", dict |-> file.state = "dict",
                 max |-> file.max, el |-> file.el]
EmptyConfig == [result |-> "return", dict |-> TRUE, max |-> None, el |-> NoSection]
ConfigRaised(exc) == [result |-> exc, dict |-> FALSE, max |-> None, el |-> NoSection]

\* A load_config that fills the keys the user file leaves out from the system file.
MergeOpt(a, b) == IF a = None THEN b ELSE a
load_config_merged(user, system) ==
    IF user.state = "dict" /\ system.state = "dict"
    THEN [result |-> "return", dict |-> TRUE,
          max |-> MergeOpt(user.max, system.max),
          el  |-> [api_key  |-> MergeOpt(user.el.api_key, system.el.api_key),
                   enabled  |-> MergeOpt(user.el.enabled, system.el.enabled),
                   voice_id |-> MergeOpt(user.el.voice_id, system.el.voice_id),
                   model_id |-> MergeOpt(user.el.model_id, system.el.model_id)]]
    ELSE IF ReadConfigFile(user) = "return" THEN Loaded(user)
    ELSE IF ReadConfigFile(user) # "next" THEN ConfigRaised(ReadConfigFile(user))
    ELSE IF ReadConfigFile(system) = "return" THEN Loaded(system)
    ELSE IF ReadConfigFile(system) # "next" THEN ConfigRaised(ReadConfigFile(system))
    ELSE EmptyConfig

\* load_config (lines 44-52): the user file first, the system file next.
load_config(user, system) ==
    IF ReadConfigFile(user) = "return" THEN Loaded(user)
    ELSE IF ReadConfigFile(user) # "next" THEN ConfigRaised(ReadConfigFile(user))
    ELSE IF ReadConfigFile(system) = "return" THEN Loaded(system)
    ELSE IF ReadConfigFile(system) # "next" THEN ConfigRaised(ReadConfigFile(system))
    ELSE EmptyConfig

\* What a getter does with load_config's answer before it looks a key up: an
\* exception of load_config passes through, and `.get` on a value that is not a
\* dict raises AttributeError.
ConfigGet(config) ==
    IF config.result # "return" THEN config.result
    ELSE IF ~config.dict THEN "AttributeError"
    ELSE "return"

\* get_max_message_length (lines 57-58) over the two files.
MaxLengthResult(user, system) ==
    LET config == load_config(user, system)
    IN  IF ConfigGet(config) = "return"
        THEN [status |-> "return", value |-> get_max_message_length(config.max)]
        ELSE [status |-> ConfigGet(config), value |-> 0]

\* get_elevenlabs_config (lines 74-100) over the environment and the two files.
NoElevenLabs == [status |-> "-", enabled |-> FALSE, api_key |-> None,
                 voice_id |-> "-", model_id |-> "-"]
ElevenLabsResult(env, user, system) ==
    LET config == load_config(user, system)
        elevenlabs_config == config.el
        resolved == get_elevenlabs_config(env.api_key, elevenlabs_config.api_key,
                                          elevenlabs_config.enabled)
    IN  IF ConfigGet(config) = "return"
        THEN [status   |-> "return",
              enabled  |-> resolved.enabled,
              api_key  |-> resolved.api_key,
              voice_id |-> voice_id(env.voice_id, elevenlabs_config.voice_id),
              model_id |-> model_id(env.model_id, elevenlabs_config.model_id)]
        ELSE [NoElevenLabs EXCEPT !.status = ConfigGet(config)]

\* The configuration sources at rest, and the getters not yet called.
NoMaxLength == [status |-> "-", value |-> 0]
NoConf == [env |-> [api_key |-> None, voice_id |-> None, model_id |-> None],
           user |-> NotAnObject("absent"), system |-> NotAnObject("absent"),
           max_length |-> NoMaxLength, elevenlabs |-> NoElevenLabs]

\* A call of get_max_message_length() under the sources of conf.
ConfigGetMaxMessageLength ==
    /\ conf.max_length.status = "-"
    /\ conf' = [conf EXCEPT !.max_length = MaxLengthResult(conf.user, conf.system)]
    /\ UNCHANGED <<sound_file, req, max_length, hpc, actions, resp, trace, log,
                   ps, run, wp, child, unreaped, effects, sp, tmpfile, oracle, lockfile, hook, ref>>

\* A call of get_elevenlabs_config() under the sources of conf.
ConfigGetElevenLabs ==
    /\ conf.elevenlabs.status = "-"
    /\ conf' = [conf EXCEPT !.elevenlabs =
                                ElevenLabsResult(conf.env, conf.user, conf.system)]
    /\ UNCHANGED <<sound_file, req, max_length, hpc, actions, resp, trace, log,
                   ps, run, wp, child, unreaped, effects, sp, tmpfile, oracle, lockfile, hook, ref>>

\* The exceptions that leave the getters under some environment and files.
MaxLengthFailures ==
    {MaxLengthResult(user, system).status :
        user \in USER_CONFIG_PATH, system \in SYSTEM_CONFIG_PATH} \ {"return"}
ElevenLabsFailures ==
    {ElevenLabsResult(env, user, system).status :
        env \in Environments, user \in USER_CONFIG_PATH, system \in SYSTEM_CONFIG_PATH}
    \ {"return"}

(***************************************************************************)
(* tts.py: _safe_run_tts_command and _write_to_pipe_nonblocking.           *)
(***************************************************************************)
TRUSTED_TTS_ENGINES == {"espeak", "espeak-ng", "spd-say", "festival"}
tts_commands == <<"espeak", "espeak-ng", "spd-say", "festival">>
fallback_players == <<"mpv", "ffplay">>

\* A validation that spawns the bare name when shutil.which finds nothing.
SafeRunTtsValidateUnresolved ==
    /\ run.pc = "validate"
    /\ run.fn = "tts"
    /\ IF run.exe \notin TRUSTED_TTS_ENGINES
       THEN run' = RunDone("ValueError")
       ELSE \E found \in BOOLEAN :
              run' = [run EXCEPT !.pc = "spawn", !.full = found]
    /\ UNCHANGED <<sound_file, req, max_length, hpc, actions, resp, trace, log,
                   ps, wp, child, unreaped, effects, sp, tmpfile, oracle, lockfile, hook, conf, ref>>

\* Lines 99-109: the allowlist check and shutil.which.
SafeRunTtsValidate ==
    /\ run.pc = "validate"
    /\ run.fn = "tts"
    /\ IF run.exe \notin TRUSTED_TTS_ENGINES
       THEN run' = RunDone("ValueError")
       ELSE \E found \in BOOLEAN :
              run' = IF found THEN [run EXCEPT !.pc = "spawn", !.full = TRUE]
                     ELSE RunDone("FileNotFoundError")
    /\ UNCHANGED <<sound_file, req, max_length, hpc, actions, resp, trace, log,
                   ps, wp, child, unreaped, effects, sp, tmpfile, oracle, lockfile, hook, conf, ref>>

\* Lines 115-144 and 148-153: the descriptors, os.posix_spawn; a failure closes the
\* descriptors and leaves as OSError.  With input_data the write loop comes next,
\* without it the call of wait_for_process.
SafeRunTtsSpawn ==
    /\ run.pc = "spawn"
    /\ run.fn = "tts"
    /\ \E spawned \in BOOLEAN :
         IF spawned
         THEN /\ child' = [Spawned(run.exe, run.full, run.arg) EXCEPT
                              !.stdin = IF run.input # None THEN "pipe" ELSE "null"]
              /\ unreaped' = unreaped + 1
              /\ effects' = effects \cup {"spawn"}
              /\ IF run.input # None /\ Len(run.input[1]) > 0
                 THEN /\ run' = [run EXCEPT !.pc = "pipe", !.wfd = TRUE]
                      /\ wp' = wp
                 ELSE /\ run' = [run EXCEPT !.pc = "wait"]
                      /\ wp' = [WpIdle EXCEPT !.pc = "poll"]
         ELSE /\ run' = RunDone("OSError")
              /\ UNCHANGED <<child, unreaped, effects, wp>>
    /\ UNCHANGED <<sound_file, req, max_length, hpc, actions, resp, trace, log,
                   ps, sp, tmpfile, oracle, lockfile, hook, conf, ref>>

\* Where _safe_run_tts_command goes when the write to the pipe raised OSError
\* (lines 145 and 148-153): the finally block closes the descriptors and the
\* exception leaves the function; line 156 is not reached.  The frame keeps what
\* was to be written and what was.
AfterPipeError(frame) ==
    [RunDone("OSError") EXCEPT !.exe = frame.exe, !.input = frame.input,
                               !.sent = frame.sent]

\* A writer without the loop: one os.write, then the pipe is closed.
AfterWriteOnce(frame, n) ==
    LET data == frame.input[1]
    IN  [frame EXCEPT !.written = @ + n,
                      !.sent = @ \o SubSeq(data, frame.written + 1, frame.written + n),
                      !.pc = "wait", !.wfd = FALSE]

\* Lines 62-66 and 56: os.write took n bytes of data[written:]; the loop ends when
\* all of data is written, and lines 146-147 close the write end.
AfterWrite(frame, n) ==
    LET data == frame.input[1]
        more == [frame EXCEPT !.written = @ + n,
                              !.sent = @ \o SubSeq(data, frame.written + 1,
                                                   frame.written + n)]
    IN  IF more.written < Len(data) THEN more
        ELSE [more EXCEPT !.pc = "wait", !.wfd = FALSE]

\* One iteration of _write_to_pipe_nonblocking's loop (lines 56-69); when the data is
\* out, lines 146-147 close the pipe and line 156 calls wait_for_process.  The
\* child holds the only read end (line 143 closed the runner's): once it has
\* exited, os.write raises BrokenPipeError.
SafeRunTtsWrite ==
    /\ run.pc = "pipe"
    /\ LET data == run.input[1]
           left == Len(data) - run.written
       IN  \/ \* select: not writable within the timeout
              /\ child.state = "running"
              /\ run' = AfterPipeError(run)
              /\ wp' = wp
           \/ \* os.write raises BrokenPipeError, or writes 0 bytes
              /\ run' = AfterPipeError(run)
              /\ wp' = wp
           \/ \* BlockingIOError: the buffer is full, the loop goes round
              /\ child.state = "running"
              /\ run' = run
              /\ wp' = wp
           \/ /\ child.state = "running"
              /\ \E n \in 1..left :
                   /\ run' = AfterWrite(run, n)
                   /\ wp' = IF run'.pc = "wait" THEN [WpIdle EXCEPT !.pc = "poll"] ELSE wp
    /\ UNCHANGED <<sound_file, req, max_length, hpc, actions, resp, trace, log,
                   ps, child, unreaped, effects, sp, tmpfile, oracle, lockfile, hook, conf, ref>>

\* Lines 156-160.
SafeRunTtsFinish ==
    /\ run.pc = "wait"
    /\ run.fn = "tts"
    /\ wp.pc = "done"
    /\ run' = [RunDone(RunResult(wp)) EXCEPT !.fate = wp.fate, !.exe = run.exe,
                                             !.input = run.input, !.sent = run.sent]
    /\ wp' = WpIdle
    /\ UNCHANGED <<sound_file, req, max_length, hpc, actions, resp, trace, log,
                   ps, child, unreaped, effects, sp, tmpfile, oracle, lockfile, hook, conf, ref>>

(***************************************************************************)
(* tts.py: speak, _speak_elevenlabs, _play_audio_file, _speak_local.       *)
(***************************************************************************)
SpCall(message) == [SpIdle EXCEPT !.pc = "start", !.message = message]
SpDone(frame, r) == [frame EXCEPT !.pc = "done", !.result = r]

\* What the environment and the file in use hold for the cloud tier: the file
\* sets enabled to false ("off"), neither source has a non-empty key ("nokey"),
\* or a key is there and the tier is not switched off ("on").
ConfigView(env_key, file_key, file_enabled) ==
    IF file_enabled = Some(FALSE) THEN "off"
    ELSE IF env_key \in {None, Some("")} /\ file_key \in {None, Some("")} THEN "nokey"
    ELSE "on"

\* speak, lines 324-331: the empty message, the configuration, the tier to start with.
SpeakStart ==
    /\ sp.pc = "start"
    /\ IF sp.message = <<>>
       THEN sp' = SpDone(sp, "False")
       ELSE \E env_key \in OptKeys, file_key \in OptKeys, file_enabled \in OptBools :
              LET cfg == get_elevenlabs_config(env_key, file_key, file_enabled)
                  view == ConfigView(env_key, file_key, file_enabled)
              IN  sp' = IF cfg.enabled
                        THEN [sp EXCEPT !.pc = "cloud", !.cfg = cfg, !.view = view]
                        ELSE [sp EXCEPT !.pc = "local", !.cfg = cfg, !.view = view,
                                        !.idx = 1]
    /\ UNCHANGED <<sound_file, req, max_length, hpc, actions, resp, trace, log,
                   ps, run, wp, child, unreaped, effects, tmpfile, oracle, lockfile, hook, conf, ref>>

\* speak, line 328: get_elevenlabs_config() raises; nothing in speak catches it.
SpeakConfigFails ==
    /\ sp.pc = "start"
    /\ sp.message # <<>>
    /\ \E exc \in ElevenLabsFailures : sp' = SpDone(sp, exc)
    /\ UNCHANGED <<sound_file, req, max_length, hpc, actions, resp, trace, log,
                   ps, run, wp, child, unreaped, effects, tmpfile, oracle, lockfile, hook, conf, ref>>

\* What _speak_elevenlabs does with the outcome of its HTTP call (lines 188-195 and
\* 209-214): the two httpx exceptions are caught and make it return False.
AfterPost(frame, outcome) ==
    IF outcome = "ok" THEN [frame EXCEPT !.pc = "tmp"]
    ELSE IF outcome \in {"HTTPStatusError", "RequestError"}
    THEN [frame EXCEPT !.pc = "cloud_ret", !.cloud = "False"]
    ELSE [frame EXCEPT !.pc = "cloud_ret", !.cloud = outcome]

\* _speak_elevenlabs, lines 174-195: no key, or the POST to the provider.
SpeakCloudPost ==
    /\ sp.pc = "cloud"
    /\ IF sp.cfg.api_key = None \/ sp.cfg.api_key = Some("")
       THEN /\ sp' = [sp EXCEPT !.pc = "cloud_ret", !.cloud = "False"]
            /\ UNCHANGED effects
       ELSE /\ \E outcome \in {"ok", "HTTPStatusError", "RequestError"} :
                 sp' = AfterPost(sp, outcome)
            /\ effects' = effects \cup {"http"}
    /\ UNCHANGED <<sound_file, req, max_length, hpc, actions, resp, trace, log,
                   ps, run, wp, child, unreaped, tmpfile, oracle, lockfile, hook, conf, ref>>

\* _speak_elevenlabs, lines 198-203: the temporary file is made and written, then
\* _play_audio_file (line 231) calls play_sound on it.  An OSError while making or
\* writing the file is caught by no handler of the function.
SpeakCloudTemp ==
    /\ sp.pc = "tmp"
    /\ \E outcome \in {"ok", "create_failed", "write_failed"} :
         CASE outcome = "ok" ->
                /\ tmpfile' = "exists"
                /\ effects' = effects \cup {"tmpfile"}
                /\ sp' = [sp EXCEPT !.pc = "play"]
                /\ ps' = PsCall("cloud", TempPath)
           [] outcome = "write_failed" ->
                /\ tmpfile' = "exists"
                /\ effects' = effects \cup {"tmpfile"}
                /\ sp' = [sp EXCEPT !.pc = "cloud_ret", !.cloud = "OSError"]
                /\ ps' = ps
           [] OTHER ->
                /\ sp' = [sp EXCEPT !.pc = "cloud_ret", !.cloud = "OSError"]
                /\ UNCHANGED <<tmpfile, effects, ps>>
    /\ UNCHANGED <<sound_file, req, max_length, hpc, actions, resp, trace, log,
                   run, wp, child, unreaped, oracle, lockfile, hook, conf, ref>>

\* Something else (a cleaner of the temporary directory) removes the file before
\* play_sound looks for it.
TmpRemovedElsewhere ==
    /\ tmpfile = "exists"
    /\ sp.pc = "play"
    /\ ps.pc = "start"
    /\ tmpfile' = "removed"
    /\ UNCHANGED <<sound_file, req, max_length, hpc, actions, resp, trace, log,
                   ps, run, wp, child, unreaped, effects, sp, oracle, lockfile, hook, conf, ref>>

\* _play_audio_file, lines 231-238: play_sound's answer.
PlayAudioFilePlayed ==
    /\ sp.pc = "play"
    /\ ps.pc = "done"
    /\ ps.caller = "cloud"
    /\ sp' = IF ps.result = "True"
             THEN [sp EXCEPT !.pc = "unlink", !.cloud = "True", !.spoke = ps.played]
             ELSE IF ps.result = "False" THEN [sp EXCEPT !.pc = "fallback", !.idx = 1]
             ELSE [sp EXCEPT !.pc = "unlink", !.cloud = ps.result]
    /\ ps' = PsIdle
    /\ UNCHANGED <<sound_file, req, max_length, hpc, actions, resp, trace, log,
                   run, wp, child, unreaped, effects, tmpfile, oracle, lockfile, hook, conf, ref>>

\* _play_audio_file, lines 240-264: one of the two direct players is looked up and
\* spawned; an OSError of os.open or os.posix_spawn is caught by nothing.
PlayAudioFileFallbackTry ==
    /\ sp.pc = "fallback"
    /\ sp.idx <= Len(fallback_players)
    /\ \E outcome \in {"unavailable", "spawn_failed", "spawned"} :
         CASE outcome = "spawned" /\ fallback_players[sp.idx] \in TRUSTED_AUDIO_PLAYERS ->
                /\ child' = Spawned(fallback_players[sp.idx], TRUE, None)
                /\ unreaped' = unreaped + 1
                /\ effects' = effects \cup {"spawn"}
                /\ sp' = [sp EXCEPT !.pc = "fb_wait"]
                /\ wp' = [WpIdle EXCEPT !.pc = "poll"]
           [] outcome = "spawn_failed" /\ fallback_players[sp.idx] \in TRUSTED_AUDIO_PLAYERS ->
                /\ sp' = [sp EXCEPT !.pc = "unlink", !.cloud = "OSError"]
                /\ UNCHANGED <<child, unreaped, effects, wp>>
           [] OTHER ->
                /\ sp' = [sp EXCEPT !.idx = sp.idx + 1]
                /\ UNCHANGED <<child, unreaped, effects, wp>>
    /\ UNCHANGED <<sound_file, req, max_length, hpc, actions, resp, trace, log,
                   ps, run, tmpfile, oracle, lockfile, hook, conf, ref>>

\* _play_audio_file, lines 263-268: exit code 0 returns True, anything else goes on.
PlayAudioFileFallbackWaited ==
    /\ sp.pc = "fb_wait"
    /\ wp.pc = "done"
    /\ sp' = IF wp.result = "return" /\ wp.code = 0
             THEN [sp EXCEPT !.pc = "unlink", !.cloud = "True",
                             !.spoke = wp.fate = "exit0"]
             ELSE [sp EXCEPT !.pc = "fallback", !.idx = sp.idx + 1]
    /\ wp' = WpIdle
    /\ UNCHANGED <<sound_file, req, max_length, hpc, actions, resp, trace, log,
                   ps, run, child, unreaped, effects, tmpfile, oracle, lockfile, hook, conf, ref>>

\* _play_audio_file, line 270.
PlayAudioFileFallbackNone ==
    /\ sp.pc = "fallback"
    /\ sp.idx > Len(fallback_players)
    /\ sp' = [sp EXCEPT !.pc = "unlink", !.cloud = "False"]
    /\ UNCHANGED <<sound_file, req, max_length, hpc, actions, resp, trace, log,
                   ps, run, wp, child, unreaped, effects, tmpfile, oracle, lockfile, hook, conf, ref>>

\* _speak_elevenlabs, lines 204-207: the finally block around _play_audio_file.
SpeakCloudUnlink ==
    /\ sp.pc = "unlink"
    /\ tmpfile' = "removed"
    /\ sp' = [sp EXCEPT !.pc = "cloud_ret"]
    /\ UNCHANGED <<sound_file, req, max_length, hpc, actions, resp, trace, log,
                   ps, run, wp, child, unreaped, effects, oracle, lockfile, hook, conf, ref>>

\* speak, lines 330-335: True ends speak, False goes to the local engines, an
\* exception leaves speak.
SpeakCloudReturn ==
    /\ sp.pc = "cloud_ret"
    /\ sp' = IF sp.cloud = "True" THEN SpDone(sp, "True")
             ELSE IF sp.cloud = "False" THEN [sp EXCEPT !.pc = "local", !.idx = 1]
             ELSE SpDone(sp, sp.cloud)
    /\ UNCHANGED <<sound_file, req, max_length, hpc, actions, resp, trace, log,
                   ps, run, wp, child, unreaped, effects, tmpfile, oracle, lockfile, hook, conf, ref>>

\* The exceptions _speak_local's loop catches (line 304).
SpeakLocalCaught ==
    {"CommandError", "CommandTimeoutError", "FileNotFoundError", "ValueError", "OSError"}

\* _speak_local, lines 290-303: shutil.which(engine) and the call of
\* _safe_run_tts_command, with the message on stdin for festival alone.
SpeakLocalTry ==
    /\ sp.pc = "local"
    /\ sp.idx <= Len(tts_commands)
    /\ \E avail \in BOOLEAN :
         IF avail
         THEN /\ sp' = [sp EXCEPT !.pc = "local_run"]
              /\ run' = [RunIdle EXCEPT
                           !.pc = "validate", !.fn = "tts", !.exe = tts_commands[sp.idx],
                           !.arg = IF tts_commands[sp.idx] = "festival"
                                   THEN None ELSE Some(sp.message),
                           !.input = IF tts_commands[sp.idx] = "festival"
                                     THEN Some(sp.message) ELSE None]
         ELSE /\ sp' = [sp EXCEPT !.idx = sp.idx + 1]
              /\ UNCHANGED run
    /\ UNCHANGED <<sound_file, req, max_length, hpc, actions, resp, trace, log,
                   ps, wp, child, unreaped, effects, tmpfile, oracle, lockfile, hook, conf, ref>>

\* _speak_local, lines 304-307.
SpeakLocalRan ==
    /\ sp.pc = "local_run"
    /\ run.pc = "done"
    /\ sp' = IF run.result = "return"
             THEN SpDone([sp EXCEPT !.spoke = run.fate = "exit0"], "True")
             ELSE IF run.result \in SpeakLocalCaught
             THEN [sp EXCEPT !.pc = "local", !.idx = sp.idx + 1]
             ELSE SpDone(sp, run.result)
    /\ run' = RunIdle
    /\ UNCHANGED <<sound_file, req, max_length, hpc, actions, resp, trace, log,
                   ps, wp, child, unreaped, effects, tmpfile, oracle, lockfile, hook, conf, ref>>

\* _speak_local, line 309.
SpeakLocalNone ==
    /\ sp.pc = "local"
    /\ sp.idx > Len(tts_commands)
    /\ sp' = SpDone(sp, "False")
    /\ UNCHANGED <<sound_file, req, max_length, hpc, actions, resp, trace, log,
                   ps, run, wp, child, unreaped, effects, tmpfile, oracle, lockfile, hook, conf, ref>>

(***************************************************************************)
(* server.py: the request models and the two /notify handlers.             *)
(***************************************************************************)
\* NotifyRequest (lines 22-27): the body's fields with their defaults.
NotifyRequest(raw) ==
    [message |-> IF raw.message = None THEN <<>> ELSE raw.message[1],
     sound   |-> IF raw.sound = None THEN TRUE ELSE raw.sound[1],
     speak   |-> IF raw.speak = None THEN FALSE ELSE raw.speak[1]]

\* Query parameters whose sound flag defaults to off.
NotifyQuerySoundOff(raw) ==
    [message |-> IF raw.message = None THEN <<>> ELSE raw.message[1],
     sound   |-> IF raw.sound = None THEN FALSE ELSE raw.sound[1],
     speak   |-> IF raw.speak = None THEN FALSE ELSE raw.speak[1]]

\* notify_get's parameters (lines 145-150): the query's fields with their defaults.
NotifyQuery(raw) ==
    [message |-> IF raw.message = None THEN <<>> ELSE raw.message[1],
     sound   |-> IF raw.sound = None THEN TRUE ELSE raw.sound[1],
     speak   |-> IF raw.speak = None THEN FALSE ELSE raw.speak[1]]

\* An entry that drops the message it is given.
ActionResultNoMessage(type, success, message) ==
    [type |-> type, success |-> success, message |-> <<>>]

\* An entry that reports success whatever the action returned.
ActionResultAlwaysOk(type, success, message) ==
    [type |-> type, success |-> TRUE, message |-> message]

\* ActionResult (lines 30-35); message defaults to None.
ActionResult(type, success, message) ==
    [type |-> type, success |-> success, message |-> message]

\* The HTTPException of lines 98-103 / 154-159 as the client sees it.
TooLong(len, max) == [status |-> 400, success |-> FALSE, actions |-> <<>>,
                      detail |-> <<len, max>>]
\* NotifyResponse(success=True, actions=actions), sent with status 200.
NotifyResponse(acts) == [status |-> 200, success |-> TRUE, actions |-> acts,
                         detail |-> <<>>]
\* An exception that leaves the handler: the framework answers 500.
ServerError == [status |-> 500, success |-> FALSE, actions |-> <<>>, detail |-> <<>>]

\* request.client.host if request.client else "unknown"
ClientIp(client) == IF client = None THEN "unknown" ELSE client[1]

LogRecord(level, event, client, message, flags, n) ==
    [level |-> level, event |-> event, client |-> client, message |-> message,
     flags |-> flags, n |-> n]

\* `message or "(none)"`
MessageOrNone(message) == IF message = <<>> THEN <<"(none)">> ELSE message

\* all(a.success for a in actions)
AllSuccess(acts) == \A i \in 1..Len(acts) : acts[i].success

CallEvent(op, arg) == [op |-> op, ev |-> "call", arg |-> arg, val |-> "-"]
ReturnEvent(op, val) == [op |-> op, ev |-> "return", arg |-> None, val |-> val]

\* What is kept of a POST request for the comparison with GET (only under test
\* doubles).
Remember(raw, max) ==
    ref' = IF oracle.on
           THEN [set |-> TRUE, raw |-> raw, max |-> max, resp |-> resp', trace |-> trace']
           ELSE ref
RememberEnd ==
    ref' = IF oracle.on /\ req.method = "POST"
           THEN [ref EXCEPT !.resp = resp', !.trace = trace']
           ELSE ref

\* The first statement of the handler: the bookkeeping of the previous request ends.
NewRequest ==
    /\ actions' = <<>>
    /\ trace' = <<>>
    /\ effects' = {}
    /\ unreaped' = 0
    /\ child' = NoChild
    /\ tmpfile' = "none"

\* notify_post's `if body.speak and body.message` (line 122).
PostSpeakRequested(body) == body.speak /\ body.message # <<>>

\* A length check that lets one character too many through.
PostTooLongOffByOne(body, max) == Len(body.message) > max + 1

\* The length check of notify_post (lines 96-97).
PostTooLong(body, max) == Len(body.message) > max

\* notify_post, lines 95-115: the length check, the first log record.
NotifyPostEnter(raw, client, cfg_max) ==
    /\ hpc = "idle"
    /\ LET body == NotifyRequest(raw)
           max == get_max_message_length(cfg_max)
       IN  /\ req' = [method |-> "POST", message |-> body.message, sound |-> body.sound,
                      speak |-> body.speak, client |-> client]
           /\ max_length' = max
           /\ NewRequest
           /\ IF PostTooLong(body, max)
              THEN /\ resp' = TooLong(Len(body.message), max)
                   /\ hpc' = "idle"
                   /\ log' = <<>>
              ELSE /\ resp' = NoResp
                   /\ hpc' = "post_sound"
                   /\ log' = <<LogRecord("info", "received", ClientIp(client),
                                         MessageOrNone(body.message),
                                         <<body.sound, body.speak>>, 0)>>
           /\ Remember(raw, max)
    /\ UNCHANGED <<sound_file, ps, run, wp, sp, oracle, lockfile, hook, conf>>

\* A handler that starts play_sound and goes on to speech without its answer.
NotifyPostSoundDetached ==
    /\ hpc = "post_sound"
    /\ IF req.sound
       THEN /\ ps' = PsCall("handler", sound_file)
            /\ trace' = Append(trace, CallEvent("play_sound", sound_file))
            /\ hpc' = "post_speak"
            /\ effects' = {}
       ELSE /\ hpc' = "post_speak"
            /\ UNCHANGED <<ps, trace, effects>>
    /\ UNCHANGED <<sound_file, req, max_length, actions, resp, log, run, wp, child,
                   unreaped, sp, tmpfile, oracle, lockfile, hook, conf, ref>>

\* max_length while no call of get_max_message_length() has returned for req.
Unread == -1

\* notify_post, line 96: get_max_message_length() raises; the handler catches
\* nothing, the framework answers 500.
NotifyPostConfigFails(raw, client) ==
    /\ hpc = "idle"
    /\ MaxLengthFailures # {}
    /\ LET body == NotifyRequest(raw)
       IN  req' = [method |-> "POST", message |-> body.message, sound |-> body.sound,
                   speak |-> body.speak, client |-> client]
    /\ max_length' = Unread
    /\ NewRequest
    /\ resp' = ServerError
    /\ hpc' = "idle"
    /\ log' = <<>>
    /\ ref' = ref
    /\ UNCHANGED <<sound_file, ps, run, wp, sp, oracle, lockfile, hook, conf>>

\* notify_post, lines 117-118: `if body.sound`, and the call of play_sound.
NotifyPostSound ==
    /\ hpc = "post_sound"
    /\ IF req.sound
       THEN /\ ps' = PsCall("handler", sound_file)
            /\ trace' = Append(trace, CallEvent("play_sound", sound_file))
            /\ hpc' = "post_sound_ret"
            /\ effects' = {}
       ELSE /\ hpc' = "post_speak"
            /\ UNCHANGED <<ps, trace, effects>>
    /\ UNCHANGED <<sound_file, req, max_length, actions, resp, log, run, wp, child,
                   unreaped, sp, tmpfile, oracle, lockfile, hook, conf, ref>>

\* notify_post, lines 118-120: play_sound's answer becomes an action entry.
NotifyPostSoundRet ==
    /\ hpc = "post_sound_ret"
    /\ ps.pc = "done"
    /\ ps.caller = "handler"
    /\ ps' = PsIdle
    /\ IF ps.result \in {"True", "False"}
       THEN /\ actions' = Append(actions, ActionResult("sound", ps.result = "True", None))
            /\ trace' = Append(trace, ReturnEvent("play_sound", ps.result))
            /\ log' = Append(log, LogRecord("debug", "Sound playback", "-", <<>>,
                                            <<ps.result = "True">>, 0))
            /\ hpc' = "post_speak"
            /\ resp' = resp
       ELSE /\ resp' = ServerError
            /\ hpc' = "idle"
            /\ UNCHANGED <<actions, trace, log>>
    /\ UNCHANGED <<sound_file, req, max_length, run, wp, child, unreaped, effects, sp,
                   tmpfile, oracle, lockfile, hook, conf>>
    /\ RememberEnd

\* notify_post, lines 122-123: `if body.speak and body.message`, and the call of speak.
NotifyPostSpeak ==
    /\ hpc = "post_speak"
    /\ IF PostSpeakRequested(req)
       THEN /\ sp' = SpCall(req.message)
            /\ trace' = Append(trace, CallEvent("speak", req.message))
            /\ hpc' = "post_speak_ret"
            /\ effects' = {}
       ELSE /\ hpc' = "post_respond"
            /\ UNCHANGED <<sp, trace, effects>>
    /\ UNCHANGED <<sound_file, req, max_length, actions, resp, log, ps, run, wp, child,
                   unreaped, tmpfile, oracle, lockfile, hook, conf, ref>>

\* notify_post, lines 123-125: speak's answer becomes an action entry.
NotifyPostSpeakRet ==
    /\ hpc = "post_speak_ret"
    /\ sp.pc = "done"
    /\ sp' = SpIdle
    /\ IF sp.result \in {"True", "False"}
       THEN /\ actions' = Append(actions,
                                 ActionResult("tts", sp.result = "True", Some(req.message)))
            /\ trace' = Append(trace, ReturnEvent("speak", sp.result))
            /\ log' = Append(log, LogRecord("debug", "TTS playback", "-", req.message,
                                            <<sp.result = "True">>, 0))
            /\ hpc' = "post_respond"
            /\ resp' = resp
       ELSE /\ resp' = ServerError
            /\ hpc' = "idle"
            /\ UNCHANGED <<actions, trace, log>>
    /\ UNCHANGED <<sound_file, req, max_length, ps, run, wp, child, unreaped, effects,
                   tmpfile, oracle, lockfile, hook, conf>>
    /\ RememberEnd

\* notify_post, lines 127-135: the last log record and the response.
NotifyPostRespond ==
    /\ hpc = "post_respond"
    /\ log' = Append(log, LogRecord("info", "completed", ClientIp(req.client), <<>>,
                                    <<AllSuccess(actions)>>, Len(actions)))
    /\ resp' = NotifyResponse(actions)
    /\ hpc' = "idle"
    /\ UNCHANGED <<sound_file, req, max_length, actions, trace, ps, run, wp, child,
                   unreaped, effects, sp, tmpfile, oracle, lockfile, hook, conf>>
    /\ RememberEnd

\* A speech test that looks at the flag alone.
GetSpeakRequestedAnyMessage(q) == q.speak

\* notify_get's `if speak_msg and message` (line 178).
GetSpeakRequested(q) == q.speak /\ q.message # <<>>

\* The length check of notify_get (lines 152-153).
GetTooLong(q, max) == Len(q.message) > max

\* notify_get, lines 143-171: the length check, the first log record.
NotifyGetEnter(raw, client, cfg_max) ==
    /\ hpc = "idle"
    /\ LET q    == NotifyQuery(raw)
           max == get_max_message_length(cfg_max)
       IN  /\ req' = [method |-> "GET", message |-> q.message, sound |-> q.sound,
                      speak |-> q.speak, client |-> client]
           /\ max_length' = max
           /\ NewRequest
           /\ IF GetTooLong(q, max)
              THEN /\ resp' = TooLong(Len(q.message), max)
                   /\ hpc' = "idle"
                   /\ log' = <<>>
              ELSE /\ resp' = NoResp
                   /\ hpc' = "get_sound"
                   /\ log' = <<LogRecord("info", "received (GET)", ClientIp(client),
                                         MessageOrNone(q.message),
                                         <<q.sound, q.speak>>, 0)>>
    /\ UNCHANGED <<sound_file, ps, run, wp, sp, oracle, lockfile, hook, conf, ref>>

\* notify_get, line 152: get_max_message_length() raises.
NotifyGetConfigFails(raw, client) ==
    /\ hpc = "idle"
    /\ MaxLengthFailures # {}
    /\ LET q == NotifyQuery(raw)
       IN  req' = [method |-> "GET", message |-> q.message, sound |-> q.sound,
                   speak |-> q.speak, client |-> client]
    /\ max_length' = Unread
    /\ NewRequest
    /\ resp' = ServerError
    /\ hpc' = "idle"
    /\ log' = <<>>
    /\ ref' = ref
    /\ UNCHANGED <<sound_file, ps, run, wp, sp, oracle, lockfile, hook, conf>>

\* notify_get, lines 173-174: `if sound`, and the call of play_sound.
NotifyGetSound ==
    /\ hpc = "get_sound"
    /\ IF req.sound
       THEN /\ ps' = PsCall("handler", sound_file)
            /\ trace' = Append(trace, CallEvent("play_sound", sound_file))
            /\ hpc' = "get_sound_ret"
            /\ effects' = {}
       ELSE /\ hpc' = "get_speak"
            /\ UNCHANGED <<ps, trace, effects>>
    /\ UNCHANGED <<sound_file, req, max_length, actions, resp, log, run, wp, child,
                   unreaped, sp, tmpfile, oracle, lockfile, hook, conf, ref>>

\* notify_get, lines 174-176: play_sound's answer becomes an action entry.
NotifyGetSoundRet ==
    /\ hpc = "get_sound_ret"
    /\ ps.pc = "done"
    /\ ps.caller = "handler"
    /\ ps' = PsIdle
    /\ IF ps.result \in {"True", "False"}
       THEN /\ actions' = Append(actions, ActionResult("sound", ps.result = "True", None))
            /\ trace' = Append(trace, ReturnEvent("play_sound", ps.result))
            /\ log' = Append(log, LogRecord("debug", "Sound playback", "-", <<>>,
                                            <<ps.result = "True">>, 0))
            /\ hpc' = "get_speak"
            /\ resp' = resp
       ELSE /\ resp' = ServerError
            /\ hpc' = "idle"
            /\ UNCHANGED <<actions, trace, log>>
    /\ ref' = ref
    /\ UNCHANGED <<sound_file, req, max_length, run, wp, child, unreaped, effects, sp,
                   tmpfile, oracle, lockfile, hook, conf>>

\* notify_get, lines 178-179: `if speak_msg and message`, and the call of speak.
NotifyGetSpeak ==
    /\ hpc = "get_speak"
    /\ IF GetSpeakRequested(req)
       THEN /\ sp' = SpCall(req.message)
            /\ trace' = Append(trace, CallEvent("speak", req.message))
            /\ hpc' = "get_speak_ret"
            /\ effects' = {}
       ELSE /\ hpc' = "get_respond"
            /\ UNCHANGED <<sp, trace, effects>>
    /\ UNCHANGED <<sound_file, req, max_length, actions, resp, log, ps, run, wp, child,
                   unreaped, tmpfile, oracle, lockfile, hook, conf, ref>>

\* notify_get, lines 179-181: speak's answer becomes an action entry.
NotifyGetSpeakRet ==
    /\ hpc = "get_speak_ret"
    /\ sp.pc = "done"
    /\ sp' = SpIdle
    /\ IF sp.result \in {"True", "False"}
       THEN /\ actions' = Append(actions,
                                 ActionResult("tts", sp.result = "True", Some(req.message)))
            /\ trace' = Append(trace, ReturnEvent("speak", sp.result))
            /\ log' = Append(log, LogRecord("debug", "TTS playback", "-", req.message,
                                            <<sp.result = "True">>, 0))
            /\ hpc' = "get_respond"
            /\ resp' = resp
       ELSE /\ resp' = ServerError
            /\ hpc' = "idle"
            /\ UNCHANGED <<actions, trace, log>>
    /\ ref' = ref
    /\ UNCHANGED <<sound_file, req, max_length, ps, run, wp, child, unreaped, effects,
                   tmpfile, oracle, lockfile, hook, conf>>

\* notify_get, lines 183-191: the last log record and the response.
NotifyGetRespond ==
    /\ hpc = "get_respond"
    /\ log' = Append(log, LogRecord("info", "completed", ClientIp(req.client), <<>>,
                                    <<AllSuccess(actions)>>, Len(actions)))
    /\ resp' = NotifyResponse(actions)
    /\ hpc' = "idle"
    /\ ref' = ref
    /\ UNCHANGED <<sound_file, req, max_length, actions, trace, ps, run, wp, child,
                   unreaped, effects, sp, tmpfile, oracle, lockfile, hook, conf>>

(***************************************************************************)
(* Test doubles of play_sound and speak, as tests/test_server.py patches   *)
(* them into the server module: each returns the value it was given.       *)
(***************************************************************************)
PyBool(b) == IF b THEN "True" ELSE "False"

MockPlaySound ==
    /\ oracle.on
    /\ ps.pc = "start"
    /\ ps.caller = "handler"
    /\ ps' = PsDone(ps, PyBool(oracle.sound))
    /\ UNCHANGED <<sound_file, req, max_length, hpc, actions, resp, trace, log,
                   run, wp, child, unreaped, effects, sp, tmpfile, oracle, lockfile, hook, conf, ref>>

MockSpeak ==
    /\ oracle.on
    /\ sp.pc = "start"
    /\ sp' = SpDone(sp, PyBool(oracle.speak))
    /\ UNCHANGED <<sound_file, req, max_length, hpc, actions, resp, trace, log,
                   ps, run, wp, child, unreaped, effects, tmpfile, oracle, lockfile, hook, conf, ref>>

(***************************************************************************)
(* examples/notify-turn-hook.py: the Stop hook.  Every Stop event starts   *)
(* the script as a process of its own, so several run at once, and the     *)
(* summarizer one of them runs (`claude --print`) ends with a Stop event   *)
(* too.  The processes share one thing, the lock file.  A process is cut   *)
(* into steps at its accesses to the lock file and at its two external     *)
(* calls, the summarizer and the POST to the server.                       *)
(***************************************************************************)
\* Hook processes that run at the same time.
MaxHooks == 2
Hooks == 1..MaxHooks

\* Line 49: the default of CLAUDE_NOTIFY_MIN_DURATION.
MIN_DURATION == 60

\* Timestamps of transcript entries, in seconds: of the user's entries and of
\* the assistant's.  The turns they make last -1, 0, MIN_DURATION and
\* MIN_DURATION + 1 seconds.
UserTimes == {0, 1}
AssistantTimes == {0, MIN_DURATION + 1}

\* Entries of a transcript.
MaxEntries == 2

\* A transcript entry: its type, its timestamp and, for a user entry, whether
\* message.content is a string (a tool result's is a list), for an assistant
\* entry, whether its content holds any text.
TranscriptEntries ==
    [type : {"user"}, timestamp : UserTimes, text : BOOLEAN]
    \cup [type : {"assistant"}, timestamp : AssistantTimes, text : BOOLEAN]

RECURSIVE EntriesUpTo(_)
EntriesUpTo(n) ==
    IF n = 0 THEN {<<>>}
    ELSE LET shorter == EntriesUpTo(n - 1)
         IN  shorter \cup {Append(s, e) : s \in {t \in shorter : Len(t) = n - 1},
                                          e \in TranscriptEntries}

Transcripts == EntriesUpTo(MaxEntries)

\* What the hook reads from stdin: text that is not JSON, a JSON value that is
\* not an object (null, a list, a number), or an object with or without
\* transcript_path.
HookInputs ==
    {[json |-> "invalid", transcript_path |-> None],
     [json |-> "value", transcript_path |-> None]}
    \cup [json : {"object"}, transcript_path : {None, Some("transcript.jsonl")}]

IsUserMessage(e) == e.type = "user" /\ e.text
IsAssistant(e) == e.type = "assistant"
Last(s) == s[Len(s)]

\* Lines 108-137.  An unreadable or unparsable transcript gives 0, as a
\* transcript without entries does.
get_duration_from_transcript(t) ==
    LET user_entries == SelectSeq(t, IsUserMessage)
        asst_entries == SelectSeq(t, IsAssistant)
    IN  IF user_entries = <<>> THEN 0
        ELSE IF asst_entries = <<>> THEN 0
        ELSE Last(asst_entries).timestamp - Last(user_entries).timestamp

\* Lines 193-230: the texts of the assistant entries after the last user message
\* (here: how many there are; the joined string is empty when there is none).
get_assistant_messages(t) ==
    LET user_entries == SelectSeq(t, IsUserMessage)
        After(e) == /\ e.type = "assistant"
                    /\ e.timestamp > Last(user_entries).timestamp
                    /\ e.text
    IN  IF user_entries = <<>> THEN 0
        ELSE Len(SelectSeq(t, After))

\* Where main stands after line 379, or how the process ended.
HookExit(status) == [pc |-> "exit", status |-> status]
HookGoes(pc) == [pc |-> pc, status |-> 0]

\* A main without the check of the lock file.
main_without_lock_check(locked, stdin, exists, t) ==
    IF stdin.json = "invalid" THEN HookExit(0)
    ELSE IF stdin.json = "value" THEN HookExit(1)
    ELSE IF stdin.transcript_path = None THEN HookExit(0)
    ELSE IF ~exists THEN HookExit(0)
    ELSE IF get_duration_from_transcript(t) < MIN_DURATION THEN HookExit(0)
    ELSE IF get_assistant_messages(t) > 0 THEN HookGoes("acquire")
    ELSE HookGoes("send")

\* A main that reads stdin outside a try block.
main_without_try(locked, stdin, exists, t) ==
    IF locked THEN HookExit(0)
    ELSE IF stdin.json = "invalid" THEN HookExit(1)
    ELSE main_without_lock_check(locked, stdin, exists, t)

\* main, lines 342-379: the lock file is there (344-345); stdin is not JSON
\* (348-351); hook_input has no method get, an AttributeError nothing catches
\* (353); no transcript_path (356-357); no transcript file (360-361); the
\* duration (364-366); then get_summary if there are assistant messages (379-380),
\* else the notification (385).
main(locked, stdin, exists, t) ==
    IF locked THEN HookExit(0)
    ELSE IF stdin.json = "invalid" THEN HookExit(0)
    ELSE IF stdin.json = "value" THEN HookExit(1)
    ELSE IF stdin.transcript_path = None THEN HookExit(0)
    ELSE IF ~exists THEN HookExit(0)
    ELSE IF get_duration_from_transcript(t) < MIN_DURATION THEN HookExit(0)
    ELSE IF get_assistant_messages(t) > 0 THEN HookGoes("acquire")
    ELSE HookGoes("send")

\* The time from the last user message to the last assistant message is more
\* than MIN_DURATION seconds.
TurnLonger(t) ==
    LET user_entries == SelectSeq(t, IsUserMessage)
        asst_entries == SelectSeq(t, IsAssistant)
    IN  /\ user_entries # <<>>
        /\ asst_entries # <<>>
        /\ Last(asst_entries).timestamp - Last(user_entries).timestamp > MIN_DURATION

\* A hook process.  What it met: locked (the lock file was there at main's first
\* line), stdin, exists (the transcript file), longer (TurnLonger of the
\* transcript).  What it did: summarized (runs of the summarizer), notified
\* (POST requests), created and removed (the lock file), took (it removed a lock
\* file it had not created).
HookIdle == [pc |-> "idle", status |-> 0, locked |-> FALSE,
             stdin |-> [json |-> "invalid", transcript_path |-> None],
             exists |-> FALSE, longer |-> FALSE, summary |-> FALSE,
             summarized |-> 0, notified |-> 0,
             created |-> FALSE, removed |-> FALSE, took |-> FALSE]

serverVars == <<sound_file, req, max_length, hpc, actions, resp, trace, log,
                ps, run, wp, child, unreaped, effects, sp, tmpfile, oracle, ref, conf>>

\* A Stop event starts the script: a new process in place of one that ended.
HookStart(i) ==
    /\ hook[i].pc \in {"idle", "exit"}
    /\ hook' = [hook EXCEPT ![i] = [HookIdle EXCEPT !.pc = "start"]]
    /\ UNCHANGED <<lockfile, serverVars>>

\* main up to get_summary or send_notification.
MainCheck(i) ==
    /\ hook[i].pc = "start"
    /\ \E stdin \in HookInputs, exists \in BOOLEAN, t \in Transcripts :
         LET out == main(lockfile, stdin, exists, t)
         IN  /\ exists \/ t = <<>>
             /\ stdin.transcript_path # None \/ ~exists
             /\ hook' = [hook EXCEPT ![i] =
                           [@ EXCEPT !.pc = out.pc, !.status = out.status,
                                     !.locked = lockfile, !.stdin = stdin,
                                     !.exists = exists, !.longer = TurnLonger(t)]]
    /\ UNCHANGED <<lockfile, serverVars>>

\* get_summary, line 245: _acquire_lock (64-74).  os.open with O_CREAT | O_EXCL
\* creates the file or fails, in one system call.
GetSummaryAcquire(i) ==
    /\ hook[i].pc = "acquire"
    /\ \/ /\ ~lockfile
          /\ lockfile' = TRUE
          /\ hook' = [hook EXCEPT ![i] =
                        [@ EXCEPT !.pc = "claude", !.created = TRUE,
                                  !.summarized = @ + 1]]
       \/ \* FileExistsError
          /\ lockfile
          /\ lockfile' = lockfile
          /\ hook' = [hook EXCEPT ![i].pc = "release"]
       \/ \* another OSError: the directory cannot be written
          /\ ~lockfile
          /\ lockfile' = lockfile
          /\ hook' = [hook EXCEPT ![i].pc = "release"]
    /\ UNCHANGED serverVars

\* get_summary, lines 247-258: subprocess.run of the summarizer.  It prints a
\* summary and exits 0, prints nothing, exits nonzero, or subprocess.run raises
\* (no such program, the 60 s timeout).
GetSummaryRun(i) ==
    /\ hook[i].pc = "claude"
    /\ \E outcome \in {"summary", "empty", "failed", "raised"} :
         hook' = [hook EXCEPT ![i] = [@ EXCEPT !.pc = "release",
                                               !.summary = (outcome = "summary")]]
    /\ UNCHANGED <<lockfile, serverVars>>

\* get_summary, lines 259-260: the finally clause runs _release_lock (77-82) on
\* every way out of the try block, the return of line 246 included.
GetSummaryRelease(i) ==
    /\ hook[i].pc = "release"
    /\ lockfile' = FALSE
    /\ hook' = [hook EXCEPT ![i] =
                  [@ EXCEPT !.pc = "send", !.removed = lockfile,
                            !.took = lockfile /\ ~hook[i].created]]
    /\ UNCHANGED serverVars

\* main, line 385: send_notification (313-339).  CLAUDE_NOTIFY_SERVER has no
\* http(s) scheme and nothing is sent, or urlopen posts the request and returns
\* or raises; then main returns.
SendNotification(i) ==
    /\ hook[i].pc = "send"
    /\ \E outcome \in {"invalid_scheme", "answered", "raised"} :
         hook' = [hook EXCEPT ![i] =
                    [@ EXCEPT !.pc = "exit", !.status = 0,
                              !.notified = IF outcome = "invalid_scheme"
                                           THEN @ ELSE @ + 1]]
    /\ UNCHANGED <<lockfile, serverVars>>

InitHook ==
    /\ lockfile = FALSE
    /\ hook = [i \in Hooks |-> HookIdle]

(***************************************************************************)
(* The server after create_app(sound_file).                                *)
(***************************************************************************)
SoundFiles == {None, Some("custom.wav")}

InitServer ==
    /\ sound_file \in SoundFiles
    /\ req = NoReq
    /\ max_length = DEFAULT_MAX_MESSAGE_LENGTH
    /\ hpc = "idle"
    /\ actions = <<>>
    /\ resp = NoResp
    /\ trace = <<>>
    /\ log = <<>>
    /\ ps = PsIdle
    /\ run = RunIdle
    /\ wp = WpIdle
    /\ child = NoChild
    /\ unreaped = 0
    /\ effects = {}
    /\ sp = SpIdle
    /\ tmpfile = "none"
    /\ ref = NoRef

\* The sources of the running server are read anew by every call of a getter, so
\* the handlers draw them per call and conf stays at rest.
InitConf == conf = NoConf

Init ==
    /\ InitServer
    /\ InitHook
    /\ InitConf
    /\ oracle = [on |-> FALSE, sound |-> FALSE, speak |-> FALSE]

\* The requests of Next come from clients with a peer address; those of NextLive
\* below from a client without one.
Next ==
    \/ \E raw \in RawRequests, client \in Peers, cfg_max \in CfgMaxLengths :
         NotifyPostEnter(raw, client, cfg_max)
    \/ NotifyPostSound
    \/ NotifyPostSoundRet
    \/ NotifyPostSpeak
    \/ NotifyPostSpeakRet
    \/ NotifyPostRespond
    \/ \E raw \in RawRequests, client \in Peers, cfg_max \in CfgMaxLengths :
         NotifyGetEnter(raw, client, cfg_max)
    \/ NotifyGetSound
    \/ NotifyGetSoundRet
    \/ NotifyGetSpeak
    \/ NotifyGetSpeakRet
    \/ NotifyGetRespond
    \/ \E raw \in RawRequests, client \in Peers : NotifyPostConfigFails(raw, client)
    \/ \E raw \in RawRequests, client \in Peers : NotifyGetConfigFails(raw, client)
    \/ SpeakConfigFails
    \/ PlaySoundResolve
    \/ PlaySoundTry
    \/ PlaySoundRan
    \/ PlaySoundBell
    \/ SafeRunAudioValidate
    \/ SafeRunAudioSpawn
    \/ SafeRunAudioFinish
    \/ WaitPoll
    \/ KillTerm
    \/ KillKill
    \/ KillReap
    \/ ChildExits
    \/ ChildKilled
    \/ ReapedElsewhere
    \/ SpeakStart
    \/ SpeakCloudPost
    \/ SpeakCloudTemp
    \/ TmpRemovedElsewhere
    \/ PlayAudioFilePlayed
    \/ PlayAudioFileFallbackTry
    \/ PlayAudioFileFallbackWaited
    \/ PlayAudioFileFallbackNone
    \/ SpeakCloudUnlink
    \/ SpeakCloudReturn
    \/ SpeakLocalTry
    \/ SpeakLocalRan
    \/ SpeakLocalNone
    \/ SafeRunTtsValidate
    \/ SafeRunTtsSpawn
    \/ SafeRunTtsWrite
    \/ SafeRunTtsFinish

Spec == Init /\ [][Next]_vars

(***************************************************************************)
(* The server's thread keeps running: whenever the program has a next step *)
(* it takes it.  Nothing is assumed of the environment: no request has to  *)
(* come, no child has to exit, nobody else has to reap or remove anything. *)
(***************************************************************************)
Progress ==
    \/ NotifyPostSound \/ NotifyPostSoundRet \/ NotifyPostSpeak \/ NotifyPostSpeakRet
    \/ NotifyPostRespond
    \/ NotifyGetSound \/ NotifyGetSoundRet \/ NotifyGetSpeak \/ NotifyGetSpeakRet
    \/ NotifyGetRespond
    \/ PlaySoundResolve \/ PlaySoundTry \/ PlaySoundRan \/ PlaySoundBell
    \/ SafeRunAudioValidate \/ SafeRunAudioSpawn \/ SafeRunAudioFinish
    \/ WaitPoll \/ KillTerm \/ KillKill \/ KillReap
    \/ SpeakStart \/ SpeakConfigFails \/ SpeakCloudPost \/ SpeakCloudTemp
    \/ PlayAudioFilePlayed \/ PlayAudioFileFallbackTry \/ PlayAudioFileFallbackWaited
    \/ PlayAudioFileFallbackNone \/ SpeakCloudUnlink \/ SpeakCloudReturn
    \/ SpeakLocalTry \/ SpeakLocalRan \/ SpeakLocalNone
    \/ SafeRunTtsValidate \/ SafeRunTtsSpawn \/ SafeRunTtsWrite \/ SafeRunTtsFinish

\* Whether the handler reaches its response does not depend on who the client is
\* nor on the configured maximum beyond accepting or rejecting the message: the
\* requests here come from one client, under no configured maximum or under 0.
NextLive ==
    \/ \E raw \in RawRequests, cfg_max \in {None, Some(0)} :
         NotifyPostEnter(raw, None, cfg_max)
    \/ \E raw \in RawRequests, cfg_max \in {None, Some(0)} :
         NotifyGetEnter(raw, None, cfg_max)
    \/ \E raw \in RawRequests : NotifyPostConfigFails(raw, None)
    \/ \E raw \in RawRequests : NotifyGetConfigFails(raw, None)
    \/ Progress
    \/ ChildExits
    \/ ChildKilled
    \/ ReapedElsewhere
    \/ TmpRemovedElsewhere

SpecLive == Init /\ [][NextLive]_vars /\ WF_vars(Progress)

(***************************************************************************)
(* The two handlers side by side, with play_sound and speak patched: a     *)
(* POST request, then GET requests with the same fields under the same     *)
(* configured maximum.                                                     *)
(***************************************************************************)
\* A GET request with the fields of the last POST request, under a configuration
\* that sets the same maximum.
NotifyGetReplay ==
    \E client \in Clients, cfg_max \in CfgMaxLengths :
      /\ ref.set
      /\ get_max_message_length(cfg_max) = ref.max
      /\ NotifyGetEnter(ref.raw, client, cfg_max)

InitEquiv ==
    /\ InitServer
    /\ InitHook
    /\ InitConf
    /\ oracle \in [on : {TRUE}, sound : BOOLEAN, speak : BOOLEAN]

NextEquiv ==
    \/ \E raw \in RawRequests, client \in Clients, cfg_max \in CfgMaxLengths :
         NotifyPostEnter(raw, client, cfg_max)
    \/ NotifyPostSound
    \/ NotifyPostSoundRet
    \/ NotifyPostSpeak
    \/ NotifyPostSpeakRet
    \/ NotifyPostRespond
    \/ NotifyGetReplay
    \/ NotifyGetSound
    \/ NotifyGetSoundRet
    \/ NotifyGetSpeak
    \/ NotifyGetSpeakRet
    \/ NotifyGetRespond
    \/ MockPlaySound
    \/ MockSpeak

SpecEquiv == InitEquiv /\ [][NextEquiv]_vars

(***************************************************************************)
(* The configuration getters on their own: any environment, any user file, *)
(* any system file, and one call of each getter.                           *)
(***************************************************************************)
InitConfig ==
    /\ InitServer
    /\ InitHook
    /\ oracle = [on |-> FALSE, sound |-> FALSE, speak |-> FALSE]
    /\ \E env \in Environments, user \in USER_CONFIG_PATH, system \in SYSTEM_CONFIG_PATH :
         conf = [NoConf EXCEPT !.env = env, !.user = user, !.system = system]

NextConfig ==
    \/ ConfigGetMaxMessageLength
    \/ ConfigGetElevenLabs

SpecConfig == InitConfig /\ [][NextConfig]_vars

(***************************************************************************)
(* The hook processes on their own: the server is at rest.                 *)
(***************************************************************************)
NextHook ==
    \E i \in Hooks :
      \/ HookStart(i)
      \/ MainCheck(i)
      \/ GetSummaryAcquire(i)
      \/ GetSummaryRun(i)
      \/ GetSummaryRelease(i)
      \/ SendNotification(i)

\* The server was created without a sound file of its own.
InitHookAlone == Init /\ sound_file = None

SpecHook == InitHookAlone /\ [][NextHook]_vars

(***************************************************************************)
(* Properties.                                                             *)
(***************************************************************************)
\* A response has been sent for req and no later request has come in.
Answered == hpc = "idle" /\ req.method # "none"
\* get_max_message_length() returned for req.
Configured == max_length # Unread
WithinLimit == Configured /\ Len(req.message) <= max_length
OverLimit == Configured /\ Len(req.message) > max_length

CountType(acts, type) == Cardinality({i \in 1..Len(acts) : acts[i].type = type})
CallsOf(tr) == SelectSeq(tr, LAMBDA e : e.ev = "call")
ReturnsOf(tr) == SelectSeq(tr, LAMBDA e : e.ev = "return")
CallsTo(tr, op) == SelectSeq(tr, LAMBDA e : e.ev = "call" /\ e.op = op)
ReturnsFrom(tr, op) == SelectSeq(tr, LAMBDA e : e.ev = "return" /\ e.op = op)
EntriesOf(acts, type) == SelectSeq(acts, LAMBDA a : a.type = type)

\* C1: every request whose message is within the configured maximum is answered
\* 200 with success=true, whatever happens inside the sound and speech actions.
C1_ValidRequestAnswered200 ==
    (Answered /\ WithinLimit) => (resp.status = 200 /\ resp.success)

\* C2: a request whose message exceeds the configured maximum is answered 400, and
\* from its arrival on neither play_sound nor speak is invoked: no call, no process,
\* no bell, no cloud call, no temporary file.
C2_TooLongRejectedWithoutEffect ==
    (req.method # "none" /\ OverLimit) =>
        /\ hpc = "idle"
        /\ resp.status = 400
        /\ resp.detail = <<Len(req.message), max_length>>
        /\ trace = <<>>
        /\ effects = {}
        /\ ps = PsIdle /\ sp = SpIdle /\ run = RunIdle /\ wp = WpIdle
        /\ child = NoChild /\ unreaped = 0 /\ tmpfile = "none"

C2_Witness ==
    /\ Answered /\ OverLimit /\ resp.status = 400
    /\ req.method = "GET" /\ req.sound /\ req.speak

\* C3: in a 200 response the actions list holds exactly one sound entry iff
\* sound=true, exactly one tts entry iff speak=true and the message is non-empty,
\* and nothing else; speak=true with an empty message invokes speak not at all.
C3_ActionsMatchFlags ==
    (Answered /\ resp.status = 200) =>
        /\ CountType(resp.actions, "sound") = (IF req.sound THEN 1 ELSE 0)
        /\ CountType(resp.actions, "tts") =
               (IF req.speak /\ req.message # <<>> THEN 1 ELSE 0)
        /\ \A i \in 1..Len(resp.actions) : resp.actions[i].type \in {"sound", "tts"}
        /\ Len(CallsTo(trace, "play_sound")) = (IF req.sound THEN 1 ELSE 0)
        /\ (req.speak /\ req.message = <<>>) => CallsTo(trace, "speak") = <<>>

C3_Witness ==
    /\ Answered /\ resp.status = 200
    /\ req.speak /\ req.message = <<>> /\ ~req.sound
    /\ resp.actions = <<>>

\* C4: with sound=true, speak=true and a non-empty message the actions list is
\* exactly <<sound, tts>>, and speak starts only after play_sound has returned
\* (whatever it returned).
C4_SoundThenSpeech ==
    (req.method # "none" /\ req.sound /\ req.speak /\ req.message # <<>>) =>
        /\ (Answered /\ resp.status = 200) =>
               /\ Len(resp.actions) = 2
               /\ resp.actions[1].type = "sound"
               /\ resp.actions[2].type = "tts"
        /\ (sp.pc # "idle" \/ CallsTo(trace, "speak") # <<>>) =>
               /\ Len(trace) >= 3
               /\ trace[1].op = "play_sound" /\ trace[1].ev = "call"
               /\ trace[2].op = "play_sound" /\ trace[2].ev = "return"
               /\ trace[3].op = "speak" /\ trace[3].ev = "call"
               /\ ps.caller # "handler"

C4_Witness ==
    /\ Answered /\ resp.status = 200
    /\ req.sound /\ req.speak /\ req.message # <<>>
    /\ Len(resp.actions) = 2
    /\ ~resp.actions[1].success

\* C5: every tts entry carries exactly the request's message, speak is called with
\* exactly that message, and a sound entry carries no message.
C5_MessageEchoed ==
    /\ \A i \in 1..Len(actions) :
         actions[i].message = (IF actions[i].type = "tts" THEN Some(req.message) ELSE None)
    /\ \A i \in 1..Len(resp.actions) :
         resp.actions[i].message =
             (IF resp.actions[i].type = "tts" THEN Some(req.message) ELSE None)
    /\ \A i \in 1..Len(trace) :
         (trace[i].op = "speak" /\ trace[i].ev = "call") => trace[i].arg = req.message
    /\ sp.pc # "idle" => sp.message = req.message

C5_Witness ==
    /\ Answered /\ resp.status = 200
    /\ Len(resp.actions) = 2
    /\ resp.actions[1].message = None
    /\ resp.actions[2].message = Some(<<"a", "a">>)

\* C6: the success field of an action entry is the boolean its play_sound / speak
\* call returned; when every call the handler made returned (True or False) the
\* response is 200 with success=true, also with an entry of success=false.
C6_EntrySuccessIsReturnValue ==
    /\ \A i \in 1..Len(actions) :
         /\ i <= Len(ReturnsOf(trace))
         /\ ReturnsOf(trace)[i].op = (IF actions[i].type = "sound" THEN "play_sound" ELSE "speak")
         /\ ReturnsOf(trace)[i].val = PyBool(actions[i].success)
    /\ (Answered /\ WithinLimit /\ Len(ReturnsOf(trace)) = Len(CallsOf(trace))) =>
         /\ resp.status = 200
         /\ resp.success
         /\ resp.actions = actions
         /\ Len(actions) = Len(ReturnsOf(trace))

C6_Witness ==
    /\ Answered /\ resp.status = 200 /\ resp.success
    /\ Len(resp.actions) = 2
    /\ ~resp.actions[1].success
    /\ ~resp.actions[2].success
    /\ ReturnsOf(trace)[1].val = "False"
    /\ ReturnsOf(trace)[2].val = "False"

\* The defaults of the three fields, as the interface documents them.
FieldOr(opt, default) == IF opt = None THEN default ELSE opt[1]

\* C7: GET and POST agree.  For the same fields, the same configured maximum and
\* the same outcomes of play_sound and speak, both send the same status, the same
\* actions list and make the same calls; a field left out is message empty,
\* sound=true, speak=false in both.
C7_GetEquivalentToPost ==
    (ref.set /\ Answered) =>
        /\ req.message = FieldOr(ref.raw.message, <<>>)
        /\ req.sound = FieldOr(ref.raw.sound, TRUE)
        /\ req.speak = FieldOr(ref.raw.speak, FALSE)
        /\ max_length = ref.max
        /\ req.method = "GET" =>
             /\ resp.status = ref.resp.status
             /\ resp.success = ref.resp.success
             /\ resp.actions = ref.resp.actions
             /\ resp.detail = ref.resp.detail
             /\ CallsOf(trace) = CallsOf(ref.trace)

C7_Witness ==
    /\ ref.set /\ Answered /\ req.method = "GET"
    /\ ref.raw.sound = None /\ ref.raw.speak = Some(TRUE)
    /\ resp.status = 200 /\ Len(resp.actions) = 2
    /\ Len(CallsOf(ref.trace)) = 2

\* C8: play_sound on an explicit path that is not on disk rings the bell and
\* returns False; play_sound with no path and no default sound rings the bell and
\* returns True; neither spawns an audio player.
C8_BellWithoutSoundFile ==
    /\ (ps.path # None /\ ps.kind = "missing") =>
         /\ ps.pc = "done" /\ ps.result = "False"
         /\ ps.bells = 1 /\ "bell" \in effects
         /\ ps.spawned = 0 /\ run = RunIdle
    /\ (ps.path = None /\ ps.kind = "nodefault") =>
         /\ ps.pc = "done" /\ ps.result = "True"
         /\ ps.bells = 1 /\ "bell" \in effects
         /\ ps.spawned = 0 /\ run = RunIdle

C8_Witness ==
    /\ ps.pc = "done" /\ ps.caller = "handler"
    /\ ps.path = Some("custom.wav") /\ ps.kind = "missing"
    /\ ps.result = "False" /\ ps.bells = 1

C10_EveryChildReaped ==
    /\ run.pc = "done" => child.state = "none"
    /\ (sp.pc = "fallback" \/ sp.pc = "unlink") => child.state = "none"
    /\ Answered => unreaped = 0

\* C11: a child still running when the timeout has elapsed is terminated and
\* wait_for_process raises CommandTimeoutError: once the timeout is noticed the
\* call ends with that exception and no child left, and a call of
\* wait_for_process always ends, also when the child never exits by itself.
C11_TimeoutKillsAndRaises ==
    /\ [](wp.polls <= MaxPolls)
    /\ [](wp.pc \in {"kill", "reap"} => "kill" \in effects)
    /\ []((wp.pc = "done" /\ wp.result = "CommandTimeoutError") =>
             (child.state = "none" /\ "kill" \in effects))
    /\ (wp.pc = "term") ~> (wp.pc = "done" /\ wp.result = "CommandTimeoutError")
    /\ (wp.pc = "poll") ~> (wp.pc = "done")

C11_Witness ==
    /\ wp.pc = "done" /\ wp.result = "CommandTimeoutError"
    /\ "kill" \in effects /\ child.state = "none"
    /\ run.fn = "tts"

\* C12: the temporary audio file of the cloud tier is gone when _speak_elevenlabs
\* returns or raises, and so when speak has ended and the response is sent.
C12_TempFileRemoved ==
    /\ sp.pc \in {"cloud_ret", "local", "local_run", "done"} => tmpfile # "exists"
    /\ Answered => tmpfile # "exists"

\* C13: the cloud tier never raises: whatever fails in it, _speak_elevenlabs
\* returns False, speak goes on with the local engines and returns a boolean.
C13_CloudFailureStaysInside ==
    /\ sp.pc = "cloud_ret" => sp.cloud \in {"True", "False"}
    /\ (sp.pc = "done" /\ sp.cloud # "-") => sp.result \in {"True", "False"}
    /\ (sp.cloud = "False" /\ sp.pc # "cloud_ret") =>
           sp.pc \in {"local", "local_run", "done"}

\* C14: with the cloud tier disabled (no API key in the environment or the file,
\* or enabled:false in the file) speak makes no HTTP call and writes no temporary
\* file; it goes to the local engines.
C14_DisabledCloudMakesNoCall ==
    (sp.view \in {"off", "nokey"}) =>
        /\ "http" \notin effects
        /\ tmpfile = "none"
        /\ ps = PsIdle
        /\ sp.pc \in {"cloud", "cloud_ret", "local", "local_run", "done"}
        /\ sp.pc = "cloud_ret" => sp.cloud = "False"
        /\ sp.view = "off" => sp.pc \in {"local", "local_run", "done"}

C14_Witness ==
    /\ sp.pc = "done" /\ sp.result = "True"
    /\ sp.view = "off" /\ sp.cfg.api_key = Some("k")
    /\ "spawn" \in effects

\* The file load_config takes the configuration from: the user-level file when it
\* exists and parses, else the system-level file, else none (the empty section).
Parses(file) == file.state = "dict" \/ file.state = "notdict"
FileInUse == IF Parses(conf.user) THEN conf.user
             ELSE IF Parses(conf.system) THEN conf.system
             ELSE NotAnObject("absent")
Truthy(opt) == opt # None /\ opt[1] # ""

\* C15: the resolved configuration has enabled=true only if the resolved API key
\* is non-empty and the config file does not set enabled to false.
C15_EnabledNeedsKey ==
    (conf.elevenlabs.status = "return" /\ conf.elevenlabs.enabled) =>
        /\ conf.elevenlabs.api_key # None
        /\ conf.elevenlabs.api_key # Some("")
        /\ FileInUse.el.enabled # Some(FALSE)

\* C16: API key, voice and model come from the environment variable when it is set,
\* else from the one file in use (the user-level file when it exists and parses,
\* else the system-level file), else the default; the two files are never merged.
C16_ConfigPrecedence ==
    (conf.elevenlabs.status = "return") =>
        LET e == conf.env
            f == FileInUse.el
            r == conf.elevenlabs
        IN  /\ r.api_key = (IF Truthy(e.api_key) THEN e.api_key ELSE f.api_key)
            /\ r.voice_id = (IF Truthy(e.voice_id) THEN e.voice_id[1]
                             ELSE IF Truthy(f.voice_id) THEN f.voice_id[1]
                             ELSE DEFAULT_ELEVENLABS_VOICE_ID)
            /\ r.model_id = (IF Truthy(e.model_id) THEN e.model_id[1]
                             ELSE IF Truthy(f.model_id) THEN f.model_id[1]
                             ELSE DEFAULT_ELEVENLABS_MODEL_ID)

C16_Witness ==
    /\ conf.elevenlabs.status = "return"
    /\ conf.env.api_key = None /\ conf.env.voice_id = Some("env-voice")
    /\ conf.user.state = "dict"
    /\ conf.user.el.api_key = None /\ conf.user.el.voice_id = Some("user-voice")
    /\ conf.user.el.model_id = None
    /\ conf.system.state = "dict"
    /\ conf.system.el.api_key = Some("system-key")
    /\ conf.system.el.model_id = Some("system-model")
    /\ conf.elevenlabs.api_key = None
    /\ conf.elevenlabs.voice_id = "env-voice"
    /\ conf.elevenlabs.model_id = DEFAULT_ELEVENLABS_MODEL_ID

\* C17: a config file that is missing, unreadable or malformed is never fatal: no
\* getter raises, and with no file that holds a JSON object get_max_message_length
\* yields the default and get_elevenlabs_config the defaults.
C17_BrokenConfigNeverFatal ==
    /\ conf.max_length.status \in {"-", "return"}
    /\ conf.elevenlabs.status \in {"-", "return"}
    /\ (conf.user.state # "dict" /\ conf.system.state # "dict") =>
         /\ conf.max_length.status = "return" =>
                conf.max_length.value = DEFAULT_MAX_MESSAGE_LENGTH
         /\ conf.elevenlabs.status = "return" =>
                /\ conf.elevenlabs.api_key = PyOr(conf.env.api_key, None)
                /\ conf.elevenlabs.voice_id =
                       PyOr(conf.env.voice_id, Some(DEFAULT_ELEVENLABS_VOICE_ID))[1]
                /\ conf.elevenlabs.model_id =
                       PyOr(conf.env.model_id, Some(DEFAULT_ELEVENLABS_MODEL_ID))[1]

\* C18: every process the server spawns runs an executable of the hardcoded
\* allowlist by the absolute path it was resolved to; which executable runs does
\* not depend on the request, and the message reaches a child only as one argument
\* (espeak, espeak-ng, spd-say) or as stdin data (festival).
C18_OnlyAllowlistedExecutables ==
    /\ child.state # "none" =>
         /\ child.exe \in TRUSTED_AUDIO_PLAYERS \cup TRUSTED_TTS_ENGINES
         /\ child.full
         /\ child.arg = (IF child.exe \in {"espeak", "espeak-ng", "spd-say"}
                         THEN Some(req.message) ELSE None)
    /\ run.input # None => (run.exe = "festival" /\ run.input = Some(req.message))
    /\ run.pc \in {"spawn", "wait", "pipe"} =>
         (run.full /\ run.exe \in TRUSTED_AUDIO_PLAYERS \cup TRUSTED_TTS_ENGINES)

C18_Witness ==
    /\ child.state = "running"
    /\ child.exe = "espeak" /\ child.full
    /\ child.arg = Some(<<"a", "a">>)

\* C19: every request is logged: a record of its arrival with the client address
\* and the message, and a record of its outcome before the response is sent, also
\* for a request rejected for its length.
C19_EveryRequestLogged ==
    (req.method # "none" /\ Configured) =>
        /\ Len(log) >= 1
        /\ log[1].event \in {"received", "received (GET)"}
        /\ log[1].client = ClientIp(req.client)
        /\ log[1].message = MessageOrNone(req.message)
        /\ Answered =>
             /\ Len(log) >= 2
             /\ log[Len(log)].event = "completed"
             /\ log[Len(log)].client = ClientIp(req.client)

\* C20: every request is answered: the handler, once entered, reaches its
\* response, also when every child hangs and the provider never answers.
C20_EveryRequestAnswered == (hpc # "idle") ~> (hpc = "idle")

C20_Witness ==
    /\ Answered /\ resp.status = 200
    /\ Len(resp.actions) = 2
    /\ "kill" \in effects
    /\ unreaped = 0

(***************************************************************************)
(* The hook.                                                               *)
(***************************************************************************)
\* The hook process i has run main's first part.
Checked(i) == hook[i].pc \notin {"idle", "start"}

\* C21: a hook process that finds the lock file at its start exits without
\* running the summarizer and without sending a notification.
C21_LockedHookDoesNothing ==
    \A i \in Hooks :
      (Checked(i) /\ hook[i].locked)
        => /\ hook[i].pc = "exit"
           /\ hook[i].summarized = 0
           /\ hook[i].notified = 0

\* A hook found the lock file, held by another hook that runs the summarizer,
\* where its input and its transcript would have had it notify.
C21_Witness ==
    \E i, j \in Hooks :
      /\ hook[i].pc = "exit"
      /\ hook[i].locked
      /\ hook[i].stdin.transcript_path # None
      /\ hook[i].exists
      /\ hook[i].longer
      /\ hook[j].pc = "claude"

\* C22: the summarizer runs and a notification is sent only for a turn longer
\* than MIN_DURATION seconds, and a hook that ends after such a turn has sent
\* exactly one notification.
C22_NotifiesExactlyLongTurns ==
    \A i \in Hooks :
      /\ (hook[i].summarized > 0 \/ hook[i].notified > 0) => hook[i].longer
      /\ (hook[i].pc = "exit" /\ hook[i].longer) => hook[i].notified = 1

\* The hook's stdin is not JSON, or names no transcript, or names a transcript
\* file that does not exist.
BadInput(h) ==
    \/ h.stdin.json = "invalid"
    \/ h.stdin.json = "object" /\ h.stdin.transcript_path = None
    \/ h.stdin.json = "object" /\ h.stdin.transcript_path # None /\ ~h.exists

\* C23: on stdin that is not JSON, on input without transcript_path and on a
\* missing transcript file the hook exits with status 0, having run no summarizer,
\* sent no notification and neither created nor removed the lock file.
C23_BadInputExitsQuietly ==
    \A i \in Hooks :
      (Checked(i) /\ BadInput(hook[i]))
        => /\ hook[i].pc = "exit"
           /\ hook[i].status = 0
           /\ hook[i].summarized = 0
           /\ hook[i].notified = 0
           /\ ~hook[i].created
           /\ ~hook[i].removed

\* One hook has ended on stdin that is not JSON, another on a transcript file that
\* does not exist, neither of them stopped by the lock file.
C23_Witness ==
    \E i, j \in Hooks :
      /\ hook[i].pc = "exit" /\ ~hook[i].locked /\ hook[i].stdin.json = "invalid"
      /\ hook[j].pc = "exit" /\ ~hook[j].locked /\ hook[j].stdin.json = "object"
      /\ hook[j].stdin.transcript_path # None /\ ~hook[j].exists

(***************************************************************************)
(* The chains of candidates.                                               *)
(***************************************************************************)
\* _safe_run_audio_command or _safe_run_tts_command is at work.
Running(fn) == run.fn = fn /\ run.pc \notin {"idle", "done"}

\* C24: play_sound tries paplay, pw-play, aplay, ffplay, mpv in this order; while
\* it is in its loop every earlier player was unavailable or failed and none has
\* succeeded, the player it runs is the one whose turn it is, and once a player
\* has succeeded play_sound has returned True, having spawned no player after it.
C24_PlayersInOrderFirstSuccessWins ==
    LET order == <<"paplay", "pw-play", "aplay", "ffplay", "mpv">>
    IN  /\ ps.pc \in {"loop", "running"} =>
              /\ ps.idx \in 1..(Len(order) + 1)
              /\ ps.failed = ps.idx - 1
              /\ ps.spawned <= ps.failed + (IF ps.pc = "running" THEN 1 ELSE 0)
              /\ ~ps.ok
        /\ Running("audio") =>
              /\ ps.pc = "running"
              /\ ps.idx <= Len(order)
              /\ run.exe = order[ps.idx]
        /\ (Running("audio") /\ run.pc = "wait" /\ child.state # "none") =>
              child.exe = order[ps.idx]
        /\ ps.ok =>
              /\ ps.pc = "done"
              /\ ps.result = "True"
              /\ ps.bells = 0
              /\ ps.spawned <= ps.failed + 1

\* play_sound returned True on its third player, after the first was not
\* installed and the second was spawned and failed.
C24_Witness ==
    /\ ps.pc = "done"
    /\ ps.ok
    /\ ps.idx = 3
    /\ ps.failed = 2
    /\ ps.spawned = 2

\* _speak_local is at work or has returned: speak reached line 335.
LocalTier ==
    \/ sp.pc \in {"local", "local_run"}
    \/ sp.pc = "done" /\ sp.cloud \in {"-", "False"} /\ sp.idx >= 1

\* What C25 says of every state but the returned value: the engine at work is the
\* one at the loop's index of espeak, espeak-ng, spd-say, festival, festival gets
\* the message on a pipe and no argument, every other engine the message as an
\* argument and the null device, and False is returned after all four.
EnginesInOrder ==
    LET order == <<"espeak", "espeak-ng", "spd-say", "festival">>
    IN  /\ sp.pc \in {"local", "local_run"} => sp.idx \in 1..(Len(order) + 1)
        /\ Running("tts") =>
              /\ sp.pc = "local_run"
              /\ sp.idx <= Len(order)
              /\ run.exe = order[sp.idx]
              /\ IF run.exe = "festival"
                 THEN run.input = Some(sp.message) /\ run.arg = None
                 ELSE run.input = None /\ run.arg = Some(sp.message)
        /\ (Running("tts") /\ run.pc \in {"pipe", "wait"} /\ child.state # "none") =>
              /\ child.exe = order[sp.idx]
              /\ child.arg = run.arg
              /\ child.stdin = (IF child.exe = "festival" THEN "pipe" ELSE "null")
        /\ (sp.pc = "done" /\ LocalTier /\ sp.result = "False") => sp.idx = Len(order) + 1

\* C25: the local tier tries espeak, espeak-ng, spd-say, festival in this order,
\* an engine only after every earlier one was unavailable or failed; only
\* festival gets the message on stdin, the others as an argument with stdin on
\* the null device; _speak_local returns True when an engine exited 0, spawning
\* no later one, and False when none did.
C25_EnginesInOrderFirstSuccessWins ==
    /\ EnginesInOrder
    /\ (sp.pc = "done" /\ LocalTier /\ sp.result = "True") => sp.spoke


(***************************************************************************)
(* The process runner.                                                     *)
(***************************************************************************)
\* C26: on timeout the runner sends SIGTERM, then SIGKILL, then reaps the child,
\* and only then raises CommandTimeoutError: the signals it has sent are at every
\* moment a prefix of SIGTERM, SIGKILL, the step that raises is the one that
\* collects the dead child after both signals, and no signal goes to a pid that
\* has been reaped.
C26_TimeoutKillsInOrder ==
    [][/\ wp'.signals \in {<<>>, <<"SIGTERM">>, <<"SIGTERM", "SIGKILL">>}
       /\ Len(wp'.signals) > Len(wp.signals) => child.state # "none"
       /\ (wp.pc # "done" /\ wp'.pc = "done" /\ wp'.result = "CommandTimeoutError") =>
             /\ wp'.signals = <<"SIGTERM", "SIGKILL">>
             /\ child.state = "zombie"
             /\ child'.state = "none"]_vars


Summarizing == {i \in Hooks : hook[i].pc = "claude"}

\* C28: the lock file gives mutual exclusion for the summarizer: at most one
\* instance runs it at a time and the lock file is there while it does, an
\* instance that is about to run it or has run it is the one that created the
\* lock file, and an instance removes the lock file only if it created it (one
\* that failed to acquire the lock leaves the file in place).
C28_LockGivesMutualExclusion ==
    /\ Cardinality(Summarizing) <= 1
    /\ Summarizing # {} => lockfile
    /\ \A i \in Hooks :
         /\ hook[i].pc = "claude" => hook[i].created
         /\ hook[i].removed => hook[i].created


(***************************************************************************)
(* What a reported success stands for.                                     *)
(***************************************************************************)
\* C29: speak returns True only if speech was produced: an audio player exited 0
\* on the audio of the cloud tier, or a local engine exited 0.  In particular
\* speak does not return True from the cloud tier when no player played the audio.
C29_SpeakTrueOnlyIfSpoken ==
    (sp.pc = "done" /\ sp.result = "True") => sp.spoke


\* C30: wait_for_process returns 0 only for a child that exited with status 0, so
\* a run of a player or an engine returns normally, and play_sound counts a
\* player as its first success, only when the child exited 0: not when its
\* status was collected elsewhere, it exited nonzero, a signal ended it or it
\* timed out.
C30_ZeroOnlyForExitZero ==
    /\ (wp.pc = "done" /\ wp.result = "return" /\ wp.code = 0) => wp.fate = "exit0"
    /\ (run.pc = "done" /\ run.result = "return") => run.fate = "exit0"
    /\ ps.ok => ps.played

=============================================================================
